---- MODULE Spec2Model ----
(***************************************************************************)
(* A model of the blockchain-os repository: the hash chain                 *)
(* (core/blockchain.py), the self-contained controller pipeline            *)
(* (cli/cli.py), the resource ledger (core/node.py,                        *)
(* resources/resource_manager.py), the consensus engine                    *)
(* (consensus/consensus.py) and the state store (persistence.py).          *)
(*                                                                         *)
(* Numbers: amounts, quotas and timestamps are Python floats in the code;  *)
(* the model uses integers (whole units), on which float addition,         *)
(* subtraction and comparison are exact.                                   *)
(*                                                                         *)
(* Strings of hex digits (hashes, checksums) are sequences of integers.    *)
(* A SHA-256 digest is modelled as HexShown pseudo-random leading hex      *)
(* digits (a rolling mix of the hashed text) followed by the hashed text   *)
(* itself, so that two digests are equal exactly when the hashed texts     *)
(* are equal (SHA-256 taken as collision free).                            *)
(***************************************************************************)
EXTENDS Integers, Sequences, FiniteSets, TLC

VARIABLES
    \* core/blockchain.py
    chain,        \* Blockchain.chain: the list of Block objects
    tampered,     \* index of the block edited in place after acceptance, or NoBlock
    lastValid,    \* what the last is_chain_valid() call returned
    \* cli/cli.py
    ctl_nodes,    \* Controller.nodes: node_id -> NodeState
    ctl_chain,    \* Controller.chain: the list of cli Block objects
    ctl_result,   \* how the last Controller operation ended
    \* core/node.py, resources/resource_manager.py
    rm_nodes,     \* ResourceManager.nodes: node_id -> Node
    rm_result,    \* how the last ResourceManager operation ended
    rm_undo,      \* history: the apply_allocation call that has just succeeded
                  \* and the ledger before it, or << >>
    \* consensus/consensus.py
    ce_nodes,     \* ConsensusEngine.nodes: the roster, a list of voters
    ce_threshold, \* ConsensusEngine.vote_threshold, as <<numerator, denominator>>
    ce_result,    \* what the last ConsensusEngine operation returned or raised
    \* persistence.py
    fs,           \* the directory of the state file: file name -> file
    sv_pc,        \* where the running save_state call stands
    sv_args,      \* the snapshot the running save_state call was given
    fs_committed, \* the snapshot of the last save_state call that returned
    fs_edited,    \* how often the state file was edited by hand since then
    st_result,    \* what the last persistence step returned or raised
    \* controller.py: one thread per socket client, all on one Controller
    th_pc,        \* thread -> where its command stands
    th_loc,       \* thread -> the local variables of its command
    th_obs,       \* what the last status / view_chain command read
    \* controller.py: one MainController on a state file
    ic_audit,     \* the audit events the controller holds in memory
    ic_result,    \* how the last command of the controller, or its start, ended
    \* persistence.py: save_state calls running at the same time
    cs_pc,        \* call -> where it stands
    cs_loc        \* call -> its snapshot and the temp_path mkstemp gave it

chainVars == << chain, tampered, lastValid >>
ctlVars == << ctl_nodes, ctl_chain, ctl_result >>
rmVars == << rm_nodes, rm_result, rm_undo >>
ceVars == << ce_nodes, ce_threshold, ce_result >>
stVars == << fs, sv_pc, sv_args, fs_committed, fs_edited, st_result >>
thVars == << th_pc, th_loc, th_obs >>
icVars == << ic_audit, ic_result >>
csVars == << cs_pc, cs_loc >>
vars == << chainVars, ctlVars, rmVars, ceVars, stVars, thVars, icVars, csVars >>

\* What the steps of one component leave unchanged.
notChain == << ctlVars, rmVars, ceVars, stVars, thVars, icVars, csVars >>
notCtl == << chainVars, rmVars, ceVars, stVars, thVars, icVars, csVars >>
notRm == << chainVars, ctlVars, ceVars, stVars, thVars, icVars, csVars >>
notCe == << chainVars, ctlVars, rmVars, stVars, thVars, icVars, csVars >>
notSt == << chainVars, ctlVars, rmVars, ceVars, thVars, icVars, csVars >>
notTh == << chainVars, rmVars, ceVars, stVars, icVars, csVars >>

\* ------------------------------------------------------------------ bounds

MaxChain == 3       \* blocks in a chain, genesis included
MaxTime == 1        \* time.time() takes values 1..MaxTime
MaxAmount == 1      \* transaction amounts 1..MaxAmount
HexShown == 2       \* leading hex digits of a digest that are computed

\* Blockchain(difficulty=1), as the tests construct it
Difficulty == 1

NoBlock == 0 - 1

\* An empty dict.
EmptyMap == [n \in {} |-> 0]

\* ------------------------------------------------------------ text helpers

\* The code of a string inside a serialized text.
StrCode(s) ==
    CASE s = "A" -> 1
      [] s = "B" -> 2
      [] s = "CPU" -> 3
      [] s = "Memory" -> 4
      [] s = "Storage" -> 5
      [] s = "Bandwidth" -> 6
      [] s = "allocate" -> 7
      [] s = "release" -> 8
      [] s = "add_node" -> 10
      [] s = "active" -> 11
      [] s = "SUCCESS" -> 12
      [] OTHER -> 9

RECURSIVE Flatten(_)
\* Concatenation of a sequence of sequences.
Flatten(ss) == IF ss = <<>> THEN <<>> ELSE Head(ss) \o Flatten(Tail(ss))

RECURSIVE Pow16(_)
Pow16(n) == IF n = 0 THEN 1 ELSE 16 * Pow16(n - 1)

HexModulus == Pow16(HexShown)

RECURSIVE Pow31(_)
\* 31^n modulo 16^HexShown
Pow31(n) ==
    IF n = 0 THEN 1
    ELSE LET half == Pow31(n \div 2) IN
         (half * half * (IF n % 2 = 1 THEN 31 ELSE 1)) % HexModulus

RECURSIVE MixRange(_, _, _)
\* The rolling mix of text[i..j] from 0, as the mix of its two halves.
MixRange(text, i, j) ==
    IF i > j THEN 0
    ELSE IF i = j THEN text[i] % HexModulus
    ELSE LET mid == (i + j) \div 2 IN
         (MixRange(text, i, mid) * Pow31(j - mid) + MixRange(text, mid + 1, j))
             % HexModulus

\* A rolling mix of text[i..], modulo 16^HexShown.  Its multiplier is odd, so
\* that stepping any one number of the text through 0..16^HexShown-1 steps
\* the mix through every residue.
Mix(text, i, acc) ==
    IF i > Len(text) THEN acc
    ELSE (acc * Pow31(Len(text) - i + 1) + MixRange(text, i, Len(text))) % HexModulus

\* hashlib.sha256(text).hexdigest()
Sha256Hex(text) ==
    LET m == Mix(text, 1, 7) IN
    [i \in 1..HexShown |-> (m \div Pow16(i - 1)) % 16] \o text

\* str.startswith("0" * n)
StartsWithZeros(hex, n) ==
    /\ Len(hex) >= n
    /\ \A i \in 1..n : hex[i] = 0

\* The string "0" (the genesis block's previous_hash).
ZeroString == <<0>>

\* ------------------------------------------------------------------ floats

\* Python floats, as the amounts of the ledgers: binary numbers with a significand
\* of MantissaBits bits, counted in whole units. Every sum and difference is
\* rounded to the nearest such number, ties to the even significand.
MantissaBits == 2

RECURSIVE Pow2(_)
Pow2(n) == IF n = 0 THEN 1 ELSE 2 * Pow2(n - 1)

RECURSIVE BitLen(_)
BitLen(v) == IF v = 0 THEN 0 ELSE 1 + BitLen(v \div 2)

\* the distance between neighbouring floats at the magnitude of v >= 0
Ulp(v) == IF BitLen(v) > MantissaBits THEN Pow2(BitLen(v) - MantissaBits) ELSE 1

RoundMagnitude(v) ==
    LET s == Ulp(v)
        q == v \div s
        r == v % s
    IN  IF 2 * r < s THEN q * s
        ELSE IF 2 * r > s THEN (q + 1) * s
        ELSE IF q % 2 = 0 THEN q * s
        ELSE (q + 1) * s

Round(v) == IF v < 0 THEN 0 - RoundMagnitude(0 - v) ELSE RoundMagnitude(v)

\* a + b and a - b on floats
FAdd(a, b) == Round(a + b)
FSub(a, b) == Round(a - b)

\* the smallest amount next to which an amount of 1 is lost in a sum, and a
\* quota that leaves room above it
BigAmount == Pow2(MantissaBits)
BigQuota == Pow2(MantissaBits) + 2

\* ------------------------------------------------- core/blockchain.py

\* Transaction.to_dict(), keys in sorted order (json.dumps(sort_keys=True))
TxText(tx) ==
    << tx.amount, StrCode(tx.node_id), StrCode(tx.resource_type),
       tx.timestamp, StrCode(tx.transaction_type) >>

\* json.dumps(block_content, sort_keys=True): index, nonce, previous_hash,
\* timestamp, transactions; strings and lists carry their length.
BlockText(block) ==
    << block.index, block.nonce, Len(block.previous_hash) >>
      \o block.previous_hash
      \o << block.timestamp, Len(block.transactions) >>
      \o Flatten([i \in 1..Len(block.transactions) |-> TxText(block.transactions[i])])

compute_hash_no_timestamp(block) ==
    Sha256Hex(BlockText([block EXCEPT !.timestamp = 0]))

\* Blockchain.compute_hash
compute_hash(block) == Sha256Hex(BlockText(block))

RECURSIVE proof_of_work_harder(_)
proof_of_work_harder(block) ==
    IF StartsWithZeros(compute_hash(block), Difficulty + 1)
    THEN [block EXCEPT !.hash = compute_hash(block)]
    ELSE proof_of_work_harder([block EXCEPT !.nonce = @ + 1])

RECURSIVE proof_of_work(_)
\* Blockchain.proof_of_work: the block with the first nonce, from its own
\* nonce upwards, whose hash has Difficulty leading zeros, and that hash.
proof_of_work(block) ==
    IF StartsWithZeros(compute_hash(block), Difficulty)
    THEN [block EXCEPT !.hash = compute_hash(block)]
    ELSE proof_of_work([block EXCEPT !.nonce = @ + 1])

\* Block(index=..., timestamp=..., transactions=..., previous_hash=...)
Block(index, timestamp, transactions, previous_hash) ==
    [ index |-> index, timestamp |-> timestamp, transactions |-> transactions,
      previous_hash |-> previous_hash, nonce |-> 0, hash |-> <<>> ]

\* Blockchain.create_genesis_block
GenesisBlock(ts) == proof_of_work(Block(0, ts, <<>>, ZeroString))

NewBlock_stale_link(ch, ts, txs) ==
    proof_of_work(Block(Len(ch), ts, txs,
                        IF ch # <<>> THEN ch[Len(ch)].previous_hash ELSE ZeroString))

\* Blockchain.create_block: the block it mines and appends
NewBlock(ch, ts, txs) ==
    proof_of_work(Block(Len(ch), ts, txs,
                        IF ch # <<>> THEN ch[Len(ch)].hash ELSE ZeroString))

\* The first check of is_chain_valid that block i of ch fails, or "ok", on
\* a Blockchain whose self.difficulty is difficulty.
BlockCheckAt(ch, i, difficulty) ==
    LET block == ch[i + 1] IN
    IF block.hash # compute_hash(block) THEN "hash"
    ELSE IF ~StartsWithZeros(block.hash, difficulty) THEN "difficulty"
    ELSE IF i = 0 THEN (IF block.previous_hash # ZeroString THEN "genesis" ELSE "ok")
    ELSE IF block.previous_hash # ch[i].hash THEN "link"
    ELSE "ok"

\* Blockchain.is_chain_valid on a Blockchain whose self.difficulty is
\* difficulty: (ok, the index named in the failure, reason)
is_chain_valid_at(ch, difficulty) ==
    IF ch = <<>> THEN [ok |-> FALSE, index |-> NoBlock, reason |-> "empty"]
    ELSE LET bad == {i \in 0..(Len(ch) - 1) : BlockCheckAt(ch, i, difficulty) # "ok"} IN
         IF bad = {} THEN [ok |-> TRUE, index |-> NoBlock, reason |-> "valid"]
         ELSE LET first == CHOOSE i \in bad : \A j \in bad : i <= j IN
              [ok |-> FALSE, index |-> first,
               reason |-> BlockCheckAt(ch, first, difficulty)]

\* The first check of is_chain_valid that block i of ch fails, or "ok".
BlockCheck(ch, i) == BlockCheckAt(ch, i, Difficulty)

\* Blockchain.is_chain_valid: (ok, the index named in the failure, reason)
is_chain_valid(ch) == is_chain_valid_at(ch, Difficulty)

\* The transaction dictionaries a caller puts into blocks.
TxPool ==
    [ node_id : {"A"}, resource_type : {"CPU"}, amount : 1..MaxAmount,
      transaction_type : {"allocate"}, timestamp : {1} ]

TxLists == {<<>>} \cup {<<tx>> : tx \in TxPool}

create_block_over_head ==
    /\ Len(chain) < MaxChain
    /\ \E ts \in 1..MaxTime, txs \in TxLists :
          chain' = [chain EXCEPT ![Len(chain)] = NewBlock(chain, ts, txs)]
    /\ UNCHANGED << tampered, lastValid, notChain >>

\* Blockchain.create_block(transactions)
create_block ==
    /\ Len(chain) < MaxChain
    /\ \E ts \in 1..MaxTime, txs \in TxLists :
          chain' = Append(chain, NewBlock(chain, ts, txs))
    /\ UNCHANGED << tampered, lastValid, notChain >>

\* Blockchain.is_chain_valid()
validate ==
    /\ lastValid' = is_chain_valid(chain)
    /\ UNCHANGED << chain, tampered, notChain >>

\* The values an edit in place can give each field of a block.
ForgedHash == << 0, 0, 15 >>
HashValues(i) == {ZeroString, ForgedHash, chain[i].hash, chain[i].previous_hash}

\* One field of one accepted block is changed in place (by whoever holds a
\* reference to the chain, as test_blockchain_tamper_detection does).
tamper ==
    /\ tampered = NoBlock
    /\ \E i \in 1..Len(chain) :
          /\ \/ \E v \in {0, chain[i].index + 1} :
                   /\ v # chain[i].index
                   /\ chain' = [chain EXCEPT ![i].index = v]
             \/ \E v \in {0, chain[i].timestamp + 1} :
                   /\ v # chain[i].timestamp
                   /\ chain' = [chain EXCEPT ![i].timestamp = v]
             \/ \E v \in {0, chain[i].nonce + 1} :
                   /\ v # chain[i].nonce
                   /\ chain' = [chain EXCEPT ![i].nonce = v]
             \/ \E v \in HashValues(i) :
                   /\ v # chain[i].previous_hash
                   /\ chain' = [chain EXCEPT ![i].previous_hash = v]
             \/ \E v \in HashValues(i) :
                   /\ v # chain[i].hash
                   /\ chain' = [chain EXCEPT ![i].hash = v]
             \/ /\ chain[i].transactions # <<>>
                /\ \E v \in {0, chain[i].transactions[1].amount + 1, 9999} :
                   /\ v # chain[i].transactions[1].amount
                   /\ chain' = [chain EXCEPT ![i].transactions[1].amount = v]
          /\ tampered' = i - 1
    /\ UNCHANGED << lastValid, notChain >>

NextChain == create_block \/ validate \/ tamper

\* C1: a freshly constructed chain, and any chain grown from it by
\* create_block alone, passes is_chain_valid: every stored hash is the
\* recomputed one and has Difficulty leading zeros, the genesis block points
\* at "0" and every later block at the stored hash of the one before it.
C1_UntamperedChainValid ==
    tampered = NoBlock =>
        /\ is_chain_valid(chain).ok
        /\ \A i \in 1..Len(chain) :
              /\ chain[i].hash = compute_hash(chain[i])
              /\ StartsWithZeros(chain[i].hash, Difficulty)
              /\ chain[i].previous_hash =
                    IF i = 1 THEN ZeroString ELSE chain[i - 1].hash

C1_Witness ==
    /\ tampered = NoBlock
    /\ Len(chain) = MaxChain
    /\ \E i \in 1..Len(chain) : chain[i].nonce > 0
    /\ \E i \in 1..Len(chain) : chain[i].transactions # <<>>
    /\ lastValid.ok

\* C2: once one field of one accepted block has been changed, is_chain_valid
\* returns false and names the altered block, never a later one.
C2_TamperNamesAlteredBlock ==
    tampered # NoBlock =>
        /\ ~is_chain_valid(chain).ok
        /\ is_chain_valid(chain).index = tampered

C2_Witness ==
    /\ tampered # NoBlock
    /\ tampered < Len(chain) - 1
    /\ ~lastValid.ok
    /\ lastValid.index = tampered

\* C30: proof_of_work tries the nonces in increasing order from the nonce the
\* block has, stops at the first one whose hash has Difficulty leading zeros,
\* leaves that nonce in the block and returns that hash, which is
\* compute_hash of the block as it is left.
C30_ProofOfWorkFirstNonce ==
    tampered = NoBlock =>
        \A i \in 1..Len(chain) :
           LET block == chain[i] IN
           /\ block.hash = compute_hash(block)
           /\ StartsWithZeros(block.hash, Difficulty)
           /\ \A nonce \in 0..(block.nonce - 1) :
                 ~StartsWithZeros(compute_hash([block EXCEPT !.nonce = nonce]),
                                  Difficulty)
           /\ \A nonce \in 0..block.nonce :
                 proof_of_work([block EXCEPT !.nonce = nonce, !.hash = << >>])
                    = block

\* a chain of mined blocks, for one of which the search went past two nonces
C30_Witness ==
    /\ tampered = NoBlock
    /\ Len(chain) >= 2
    /\ \E i \in 1..Len(chain) :
          /\ chain[i].nonce >= 2
          /\ chain[i].transactions # << >>

\* C32: once is_chain_valid has reported a hash or link mismatch on a chain,
\* and the chain is still in that condition, no further block is committed
\* to it.
C32_NoCommitAfterViolation ==
    [][ (lastValid.reason \in {"hash", "link"} /\ ~is_chain_valid(chain).ok)
            => Len(chain') = Len(chain) ]_vars

\* C39: the chain is append-only. create_block makes the chain one block
\* longer, the new block carrying the previous length as its index and the
\* hash of the previous head as its previous_hash, and leaves every block
\* that was in the chain as it was; is_chain_valid leaves the chain as it was.
C39_ChainIsAppendOnly ==
    [][ /\ create_block =>
              /\ Len(chain') = Len(chain) + 1
              /\ chain'[Len(chain')].index = Len(chain)
              /\ chain'[Len(chain')].previous_hash = chain[Len(chain)].hash
              /\ \A i \in 1..Len(chain) : chain'[i] = chain[i]
        /\ validate => chain' = chain ]_vars

\* a block was appended after the hash of the head had been edited in place,
\* and is_chain_valid has been called on the result
C39_Witness ==
    /\ Len(chain) = MaxChain
    /\ tampered = Len(chain) - 2
    /\ chain[Len(chain) - 1].hash = ForgedHash
    /\ chain[Len(chain)].index = Len(chain) - 1
    /\ chain[Len(chain)].previous_hash = ForgedHash
    /\ chain[Len(chain)].transactions # << >>
    /\ lastValid.reason # "not called" /\ lastValid = is_chain_valid(chain)

\* ------------------------------------------------------------ cli/cli.py

MaxQuota == 2       \* quotas given at registration are at most MaxQuota

\* Controller.VALID_RESOURCES
VALID_RESOURCES == {"CPU", "Memory", "Storage", "Bandwidth"}

\* NodeState(node_id, quotas=normalized)
NodeState(normalized) ==
    [ quotas |-> normalized, allocated |-> [r \in VALID_RESOURCES |-> 0] ]

\* cli Transaction(node_id, resource_type, amount, transaction_type)
CliTransaction(node_id, resource_type, amount, transaction_type, ts) ==
    [ node_id |-> node_id, resource_type |-> resource_type, amount |-> amount,
      transaction_type |-> transaction_type, timestamp |-> ts ]

\* json.dumps(block_content, sort_keys=True) of a cli Block: index,
\* previous_hash, timestamp, transactions
CliBlockText(block) ==
    << block.index, Len(block.previous_hash) >>
      \o block.previous_hash
      \o << block.timestamp, Len(block.transactions) >>
      \o Flatten([i \in 1..Len(block.transactions) |-> TxText(block.transactions[i])])

\* cli Block.compute_hash
cli_compute_hash(block) == Sha256Hex(CliBlockText(block))

\* Controller.__init__: the genesis block
CliGenesis(ts) ==
    LET g == [ index |-> 0, timestamp |-> ts, transactions |-> <<>>,
               previous_hash |-> ZeroString, hash |-> <<>> ]
    IN [g EXCEPT !.hash = cli_compute_hash(g)]

validate_request_no_quota(nodes, node_id, resource_type, amount, tx_type) ==
    IF node_id \notin DOMAIN nodes THEN "ValueError"
    ELSE IF resource_type \notin VALID_RESOURCES THEN "ValueError"
    ELSE IF amount <= 0 THEN "ValueError"
    ELSE IF tx_type = "allocate" THEN "ok"
    ELSE IF tx_type = "release"
         THEN (IF amount > nodes[node_id].allocated[resource_type]
               THEN "ValueError" ELSE "ok")
    ELSE "ValueError"

\* Controller._validate_request: the error it raises, or "ok"
validate_request(nodes, node_id, resource_type, amount, tx_type) ==
    IF node_id \notin DOMAIN nodes THEN "ValueError"
    ELSE IF resource_type \notin VALID_RESOURCES THEN "ValueError"
    ELSE IF amount <= 0 THEN "ValueError"
    ELSE IF tx_type = "allocate"
         THEN (IF FAdd(nodes[node_id].allocated[resource_type], amount)
                     > nodes[node_id].quotas[resource_type]
               THEN "ValueError" ELSE "ok")
    ELSE IF tx_type = "release"
         THEN (IF amount > nodes[node_id].allocated[resource_type]
               THEN "ValueError" ELSE "ok")
    ELSE "ValueError"

create_block_with_repeated_tx(ch, tx, ts) ==
    LET b == [ index |-> Len(ch), timestamp |-> ts, transactions |-> <<tx, tx>>,
               previous_hash |-> ch[Len(ch)].hash, hash |-> <<>> ]
    IN [b EXCEPT !.hash = cli_compute_hash(b)]

\* Controller._create_block_with_single_tx
create_block_with_single_tx(ch, tx, ts) ==
    LET b == [ index |-> Len(ch), timestamp |-> ts, transactions |-> <<tx>>,
               previous_hash |-> ch[Len(ch)].hash, hash |-> <<>> ]
    IN [b EXCEPT !.hash = cli_compute_hash(b)]

\* Controller._simulate_consensus
simulate_consensus(nodes, block) ==
    LET total == Cardinality(DOMAIN nodes)
        yes_votes == total
    IN IF total = 0 THEN FALSE ELSE yes_votes > (total \div 2)

\* Controller._apply_transaction: the error it raises, or "ok"
apply_transaction_error(nodes, tx) ==
    IF tx.node_id \notin DOMAIN nodes THEN "KeyError"
    ELSE IF tx.transaction_type \notin {"allocate", "release"} THEN "ValueError"
    ELSE IF tx.resource_type \notin VALID_RESOURCES THEN "KeyError"
    ELSE "ok"

\* Controller._apply_transaction: the node states it leaves
apply_transaction(nodes, tx) ==
    LET old == nodes[tx.node_id].allocated[tx.resource_type] IN
    IF tx.transaction_type = "allocate"
    THEN [nodes EXCEPT ![tx.node_id].allocated[tx.resource_type] =
              FAdd(old, tx.amount)]
    ELSE [nodes EXCEPT ![tx.node_id].allocated[tx.resource_type] =
              IF FSub(old, tx.amount) < 1 THEN 0 ELSE FSub(old, tx.amount)]

propose_and_commit_append_first(nodes, ch, tx, ts) ==
    LET block == create_block_with_single_tx(ch, tx, ts)
        approved == simulate_consensus(nodes, block)
    IN  IF ~approved
        THEN [ status |-> "rejected", approved |-> FALSE, nodes |-> nodes,
               chain |-> Append(ch, block), block |-> <<block>> ]
        ELSE IF apply_transaction_error(nodes, tx) # "ok"
        THEN [ status |-> apply_transaction_error(nodes, tx), approved |-> TRUE,
               nodes |-> nodes, chain |-> Append(ch, block), block |-> <<block>> ]
        ELSE [ status |-> "committed", approved |-> TRUE,
               nodes |-> apply_transaction(nodes, tx),
               chain |-> Append(ch, block), block |-> <<block>> ]

\* Controller.propose_and_commit: what it returns or raises (status), the
\* verdict of the consensus round, the state it leaves and the candidate block
propose_and_commit(nodes, ch, tx, ts) ==
    LET block == create_block_with_single_tx(ch, tx, ts)
        approved == simulate_consensus(nodes, block)
    IN  IF ~approved
        THEN [ status |-> "rejected", approved |-> FALSE, nodes |-> nodes,
               chain |-> ch, block |-> <<block>> ]
        ELSE IF apply_transaction_error(nodes, tx) # "ok"
        THEN [ status |-> apply_transaction_error(nodes, tx), approved |-> TRUE,
               nodes |-> nodes, chain |-> ch, block |-> <<block>> ]
        ELSE [ status |-> "committed", approved |-> TRUE,
               nodes |-> apply_transaction(nodes, tx),
               chain |-> Append(ch, block), block |-> <<block>> ]

\* Inputs of the Controller's operations.
NodeIds == {"A", "B"}
\* time.time() as the Controller reads it: no decision of the Controller
\* depends on a timestamp, so one reading stands for all
CliTimes == {1}
QuotaInputs == (0 - 1)..MaxQuota
AmountInputs == 0..(MaxAmount + 1)
ResourceInputs == {"CPU", "GPU"}
\* the quotas and amounts the commands of the Controller are given
CliQuotas == QuotaInputs \cup {BigQuota}
CliAmounts == AmountInputs \cup {BigAmount}

\* Controller.add_node(node_id, quotas)
add_node ==
    /\ \E node_id \in NodeIds \cup {""}, cpu \in CliQuotas :
          LET normalized == [r \in VALID_RESOURCES |-> IF r = "CPU" THEN cpu ELSE 0]
              failed == node_id = "" \/ node_id \in DOMAIN ctl_nodes \/ cpu < 0
          IN  /\ ctl_nodes' =
                    IF failed THEN ctl_nodes
                    ELSE [n \in DOMAIN ctl_nodes \cup {node_id} |->
                             IF n = node_id THEN NodeState(normalized)
                             ELSE ctl_nodes[n]]
              /\ ctl_result' = [ op |-> "add_node",
                                 status |-> IF failed THEN "ValueError" ELSE "ok",
                                 approved |-> FALSE, block |-> << >> ]
    /\ UNCHANGED << ctl_chain, notCtl >>

\* request_resource / release_resource with one choice of inputs: validate,
\* then propose_and_commit
Pipeline(op, tx_type, node_id, resource_type, amount, ts) ==
    LET v == validate_request(ctl_nodes, node_id, resource_type, amount, tx_type)
        tx == CliTransaction(node_id, resource_type, amount, tx_type, ts)
        r == propose_and_commit(ctl_nodes, ctl_chain, tx, ts)
    IN  IF v # "ok"
        THEN /\ ctl_result' = [ op |-> op, status |-> v, approved |-> FALSE,
                                block |-> << >> ]
             /\ UNCHANGED << ctl_nodes, ctl_chain >>
        ELSE /\ ctl_nodes' = r.nodes
             /\ ctl_chain' = r.chain
             /\ ctl_result' =
                   [ op |-> op,
                     status |-> IF r.status = "rejected"
                                THEN "ConsensusError" ELSE r.status,
                     approved |-> r.approved, block |-> r.block ]

\* Controller.request_resource(node_id, resource_type, amount)
request_resource ==
    /\ Len(ctl_chain) < MaxChain
    /\ \E node_id \in NodeIds, resource_type \in ResourceInputs,
          amount \in CliAmounts, ts \in CliTimes :
          Pipeline("request_resource", "allocate", node_id, resource_type, amount, ts)
    /\ UNCHANGED notCtl

\* Controller.release_resource(node_id, resource_type, amount)
release_resource ==
    /\ Len(ctl_chain) < MaxChain
    /\ \E node_id \in NodeIds, resource_type \in ResourceInputs,
          amount \in CliAmounts, ts \in CliTimes :
          Pipeline("release_resource", "release", node_id, resource_type, amount, ts)
    /\ UNCHANGED notCtl

\* Controller.propose_and_commit(tx), called with a transaction of the
\* caller's making (the method is public and validates nothing itself)
direct_propose ==
    /\ Len(ctl_chain) < MaxChain
    /\ \E node_id \in NodeIds, amount \in 1..MaxAmount,
          tx_type \in {"allocate", "release"}, ts \in CliTimes :
          LET tx == CliTransaction(node_id, "CPU", amount, tx_type, ts)
              r == propose_and_commit(ctl_nodes, ctl_chain, tx, ts)
          IN  /\ ctl_nodes' = r.nodes
              /\ ctl_chain' = r.chain
              /\ ctl_result' = [ op |-> "propose_and_commit", status |-> r.status,
                                 approved |-> r.approved, block |-> r.block ]
    /\ UNCHANGED notCtl

NextCtl == add_node \/ request_resource \/ release_resource \/ direct_propose

\* Some node registered before and after the step has another allocation.
AllocationsChanged ==
    \E n \in DOMAIN ctl_nodes \cap DOMAIN ctl_nodes' :
        ctl_nodes'[n].allocated # ctl_nodes[n].allocated

\* C3: a step of the pipeline that changes an allocation or the chain is one
\* whose consensus round approved the candidate block; a step whose round
\* rejected it leaves every node's state and the chain as they were, and
\* the candidate block is not in the chain.
C3_CommitOnlyAfterApproval ==
    [][ /\ (AllocationsChanged \/ ctl_chain' # ctl_chain)
            => /\ ctl_result'.approved
               /\ ctl_result'.status = "committed"
               /\ ctl_chain' = Append(ctl_chain, ctl_result'.block[1])
        /\ (ctl_result'.block # << >> /\ ~ctl_result'.approved)
            => /\ ctl_nodes' = ctl_nodes
               /\ ctl_chain' = ctl_chain
               /\ \A i \in 1..Len(ctl_chain') : ctl_chain'[i] # ctl_result'.block[1]
      ]_vars

C3_Witness ==
    /\ ctl_result.status = "rejected"
    /\ ctl_result.block # << >>
    /\ ~ctl_result.approved
    /\ ctl_result.block[1].index = Len(ctl_chain)

\* some block of the chain carries an add_node transaction of the node
HasFoundingBlock(ch, node_id) ==
    \E i \in 1..Len(ch) : \E j \in 1..Len(ch[i].transactions) :
       /\ ch[i].transactions[j].transaction_type = "add_node"
       /\ ch[i].transactions[j].node_id = node_id

\* C11: registering a participant goes through a founding add_node block,
\* and a registration whose block is rejected is rolled back, so every node
\* in the ledger has an accepted add_node block in the chain.
C11_NodeHasFoundingBlock ==
    \A n \in DOMAIN ctl_nodes : HasFoundingBlock(ctl_chain, n)

\* the request breaks a domain rule in the current state of the ledger
InvalidRequest(node_id, resource_type, amount, tx_type) ==
    IF node_id \notin DOMAIN ctl_nodes THEN TRUE
    ELSE IF resource_type \notin VALID_RESOURCES THEN TRUE
    ELSE IF amount <= 0 THEN TRUE
    ELSE IF tx_type = "allocate"
         THEN ctl_nodes[node_id].allocated[resource_type] + amount
                 > ctl_nodes[node_id].quotas[resource_type]
    ELSE amount > ctl_nodes[node_id].allocated[resource_type]

\* the step raised ValueError with no block built, no verdict asked for and
\* the chain and every allocation as they were
RejectedUntouched ==
    /\ ctl_result'.status = "ValueError"
    /\ ctl_result'.block = << >>
    /\ ~ctl_result'.approved
    /\ ctl_chain' = ctl_chain
    /\ ctl_nodes' = ctl_nodes

NextPipeline == add_node \/ request_resource \/ release_resource

RECURSIVE ChainSum(_, _, _)
\* the amounts of the allocate transactions of a chain for one node and one
\* resource, less the amounts of its release transactions
ChainSum(ch, node_id, resource_type) ==
    IF ch = << >> THEN 0
    ELSE LET before == ChainSum(SubSeq(ch, 1, Len(ch) - 1), node_id, resource_type)
             txs == ch[Len(ch)].transactions
         IN  IF txs = << >> \/ txs[1].node_id # node_id
                            \/ txs[1].resource_type # resource_type
             THEN before
             ELSE IF txs[1].transaction_type = "allocate" THEN before + txs[1].amount
             ELSE before - txs[1].amount

\* C35: in every state reached through add_node, request_resource and
\* release_resource, each node's allocated[resource] is the sum of the
\* amounts of its allocate transactions in the chain less the sum of the
\* amounts of its release transactions.
C35_LedgerIsReplayOfChain ==
    \A n \in DOMAIN ctl_nodes : \A r \in VALID_RESOURCES :
       ctl_nodes[n].allocated[r] = ChainSum(ctl_chain, n, r)

\* ------------------------- core/node.py, resources/resource_manager.py

\* a quota large enough for sums that are not floats themselves

\* Node(node_id, quotas): __post_init__ gives every quota key an allocation
\* of 0.0
Node(quotas) == [ quotas |-> quotas, allocated |-> [r \in DOMAIN quotas |-> 0] ]

can_allocate_ignoring_allocated(node, resource, amount) ==
    IF resource \notin DOMAIN node.quotas THEN FALSE
    ELSE IF amount < 0 THEN FALSE
    ELSE amount <= node.quotas[resource]

\* Node.can_allocate
can_allocate(node, resource, amount) ==
    IF resource \notin DOMAIN node.quotas THEN FALSE
    ELSE IF amount < 0 THEN FALSE
    ELSE FAdd(node.allocated[resource], amount) <= node.quotas[resource]

allocate_error_unchecked(node, resource, amount) ==
    IF resource \notin DOMAIN node.quotas THEN "ValueError"
    ELSE IF amount < 0 THEN "ValueError"
    ELSE "ok"

\* Node.allocate: the error it raises, or "ok"
allocate_error(node, resource, amount) ==
    IF resource \notin DOMAIN node.quotas THEN "ValueError"
    ELSE IF amount < 0 THEN "ValueError"
    ELSE IF ~can_allocate(node, resource, amount) THEN "ValueError"
    ELSE "ok"

\* Node.allocate: the node it leaves
allocate(node, resource, amount) ==
    [node EXCEPT !.allocated[resource] = FAdd(@, amount)]

\* Node.can_release
can_release(node, resource, amount) ==
    IF resource \notin DOMAIN node.allocated THEN FALSE
    ELSE IF amount < 0 THEN FALSE
    ELSE node.allocated[resource] >= amount

\* Node.release: the error it raises, or "ok"
release_error(node, resource, amount) ==
    IF resource \notin DOMAIN node.allocated THEN "ValueError"
    ELSE IF amount < 0 THEN "ValueError"
    ELSE IF ~can_release(node, resource, amount) THEN "ValueError"
    ELSE "ok"

\* Node.release: the node it leaves (a remainder below 1e-12 becomes 0.0)
release(node, resource, amount) ==
    [node EXCEPT !.allocated[resource] =
        IF FSub(@, amount) < 1 THEN 0 ELSE FSub(@, amount)]

\* The quota dictionaries nodes are constructed with.
QuotaDicts ==
    [{"CPU"} -> QuotaInputs \cup {BigQuota}]
      \cup { [r \in {"CPU", "Memory"} |-> 1] }

LedgerAmounts == (0 - 1)..(MaxQuota + 1)

\* ResourceManager.register_node(Node(node_id, quotas))
register_node ==
    /\ \E node_id \in NodeIds, quotas \in QuotaDicts :
          IF node_id \in DOMAIN rm_nodes
          THEN /\ rm_result' = [op |-> "register_node", status |-> "ValueError"]
               /\ UNCHANGED rm_nodes
          ELSE /\ rm_nodes' = [n \in DOMAIN rm_nodes \cup {node_id} |->
                                  IF n = node_id THEN Node(quotas) ELSE rm_nodes[n]]
               /\ rm_result' = [op |-> "register_node", status |-> "ok"]
    /\ rm_undo' = << >>
    /\ UNCHANGED notRm

\* ResourceManager.apply_allocation(node_id, resource, amount), for one choice
\* of arguments
ApplyAllocation(node_id, resource, amount) ==
    LET err == IF node_id \notin DOMAIN rm_nodes THEN "ValueError"
               ELSE allocate_error(rm_nodes[node_id], resource, amount)
    IN  /\ rm_nodes' = IF err # "ok" THEN rm_nodes
                       ELSE [rm_nodes EXCEPT ![node_id] = allocate(@, resource, amount)]
        /\ rm_result' = [op |-> "apply_allocation", status |-> err]
        /\ rm_undo' = IF err # "ok" THEN << >>
                      ELSE << [ node_id |-> node_id, resource |-> resource,
                                amount |-> amount, before |-> rm_nodes ] >>

\* the call about to be made releases exactly what the call before it
\* allocated
Undoes(node_id, resource, amount) ==
    /\ rm_undo # << >>
    /\ rm_result.op = "apply_allocation"
    /\ rm_undo[1].node_id = node_id
    /\ rm_undo[1].resource = resource
    /\ rm_undo[1].amount = amount

\* ResourceManager.apply_release(node_id, resource, amount), for one choice of
\* arguments
ApplyRelease(node_id, resource, amount) ==
    LET err == IF node_id \notin DOMAIN rm_nodes THEN "ValueError"
               ELSE release_error(rm_nodes[node_id], resource, amount)
    IN  /\ rm_nodes' = IF err # "ok" THEN rm_nodes
                       ELSE [rm_nodes EXCEPT ![node_id] = release(@, resource, amount)]
        /\ rm_result' = [op |-> "apply_release", status |-> err]
        /\ rm_undo' = IF Undoes(node_id, resource, amount) THEN rm_undo ELSE << >>

LedgerResources == {"CPU", "Memory", "GPU"}

apply_allocation ==
    /\ \E node_id \in NodeIds, resource \in LedgerResources,
          amount \in LedgerAmounts : ApplyAllocation(node_id, resource, amount)
    /\ UNCHANGED notRm

apply_release ==
    /\ \E node_id \in NodeIds, resource \in LedgerResources,
          amount \in LedgerAmounts : ApplyRelease(node_id, resource, amount)
    /\ UNCHANGED notRm

\* ResourceManager.can_allocate(node_id, resource, amount): the call, and
\* what it returned
rm_can_allocate ==
    /\ \E node_id \in NodeIds, resource \in {"CPU", "Memory", "GPU"},
          amount \in LedgerAmounts :
          rm_result' =
             IF node_id \notin DOMAIN rm_nodes
             THEN [ op |-> "can_allocate", status |-> "ValueError",
                    node_id |-> node_id, resource |-> resource,
                    amount |-> amount, value |-> FALSE ]
             ELSE [ op |-> "can_allocate", status |-> "returned",
                    node_id |-> node_id, resource |-> resource,
                    amount |-> amount,
                    value |-> can_allocate(rm_nodes[node_id], resource, amount) ]
    /\ rm_undo' = << >>
    /\ UNCHANGED << rm_nodes, notRm >>

NextRm == register_node \/ apply_allocation \/ apply_release \/ rm_can_allocate

\* C4: every registered node has 0 <= allocated[r] <= quotas[r] for every
\* resource kind r, whatever registrations, allocations and releases were
\* attempted.
C4_AllocatedWithinQuota ==
    \A n \in DOMAIN rm_nodes : \A r \in DOMAIN rm_nodes[n].quotas :
        /\ 0 <= rm_nodes[n].allocated[r]
        /\ rm_nodes[n].allocated[r] <= rm_nodes[n].quotas[r]

\* can_allocate has just answered for a registered node and a resource kind
\* the node has a quota for
CanAllocateAnswered ==
    /\ rm_result.op = "can_allocate"
    /\ rm_result.status = "returned"
    /\ rm_result.resource \in DOMAIN rm_nodes[rm_result.node_id].quotas

\* C19: for a registered node and a resource kind it has a quota for,
\* can_allocate returns true exactly when amount > 0 and
\* allocated[resource] + amount <= quotas[resource].
C19_CanAllocateIffPositiveAndFits ==
    CanAllocateAnswered =>
        LET node == rm_nodes[rm_result.node_id] IN
        rm_result.value <=>
            /\ rm_result.amount > 0
            /\ node.allocated[rm_result.resource] + rm_result.amount
                  <= node.quotas[rm_result.resource]

C22_ReleaseWithinAllocated ==
    [][ /\ \A n \in DOMAIN rm_nodes : \A r \in DOMAIN rm_nodes[n].allocated :
              \A amount \in LedgerAmounts :
                 can_release(rm_nodes[n], r, amount) <=>
                    (amount > 0 /\ amount <= rm_nodes[n].allocated[r])
        /\ rm_result'.op = "apply_release" =>
           \A node_id \in DOMAIN rm_nodes :
              \A resource \in DOMAIN rm_nodes[node_id].allocated :
                 \A amount \in LedgerAmounts :
                    ApplyRelease(node_id, resource, amount) =>
                       IF amount > rm_nodes[node_id].allocated[resource]
                       THEN /\ rm_result'.status = "ValueError"
                            /\ rm_nodes' = rm_nodes
                       ELSE /\ rm_result'.status = "ok" =>
                                 rm_nodes' = [rm_nodes EXCEPT
                                    ![node_id].allocated[resource] = FSub(@, amount)]
                            /\ rm_nodes'[node_id].allocated[resource] >= 0
      ]_vars

\* C23: when an allocation is admissible, apply_allocation followed by
\* apply_release of the same amount of the same resource of the same node
\* succeeds and leaves the ledger, every allocation and every quota, as it
\* was before the allocation.
C23_AllocateThenReleaseRestores ==
    [][ (rm_result'.op = "apply_release" /\ rm_undo # << >>) =>
        \A node_id \in NodeIds, resource \in LedgerResources,
           amount \in LedgerAmounts :
           ( /\ Undoes(node_id, resource, amount)
             /\ ApplyRelease(node_id, resource, amount) )
           => /\ rm_result'.status = "ok"
              /\ rm_nodes' = rm_undo[1].before
      ]_vars

\* C24: register_node fails, leaving the ledger unchanged, when the node_id
\* is already registered or any quota is negative; when it succeeds the new
\* node has allocated[r] = 0 for every resource kind r of its quotas.
C24_RegisterChecksIdAndQuotas ==
    [][ rm_result'.op = "register_node" =>
           IF rm_result'.status = "ok"
           THEN \E n \in NodeIds \ DOMAIN rm_nodes :
                   /\ DOMAIN rm_nodes' = DOMAIN rm_nodes \cup {n}
                   /\ \A m \in DOMAIN rm_nodes : rm_nodes'[m] = rm_nodes[m]
                   /\ DOMAIN rm_nodes'[n].allocated = DOMAIN rm_nodes'[n].quotas
                   /\ \A r \in DOMAIN rm_nodes'[n].quotas :
                         /\ rm_nodes'[n].quotas[r] >= 0
                         /\ rm_nodes'[n].allocated[r] = 0
           ELSE rm_nodes' = rm_nodes
      ]_vars

\* ------------------------------------------------- consensus/consensus.py

MaxVoters == 3      \* rosters hold at most MaxVoters voters

\* vote_threshold values, <<numerator, denominator>>: 0.25, 0.5, 0.75 and 1.0
\* are exact in binary floating point, so n * t below is exact too
Thresholds == { <<1, 4>>, <<1, 2>>, <<3, 4>>, <<1, 1>> }

\* A voter is what its vote_on_block returns, or "default" when it has none.
Voters == {"APPROVE", "REJECT", "ABSTAIN", "default"}

Rosters == UNION { [1..n -> Voters] : n \in 0..MaxVoters }

\* The objects handed to request_consensus as its block: <<>> is None.
BlockAttrs == {"index", "timestamp", "transactions", "previous_hash", "hash"}

WellFormedBlock ==
    [ attrs |-> BlockAttrs, index |-> 1, transactions |-> "list", hash |-> "set" ]

BlockArgs ==
    { << >>,
      << WellFormedBlock >>,
      << [WellFormedBlock EXCEPT !.index = 0 - 1] >>,
      << [WellFormedBlock EXCEPT !.attrs = BlockAttrs \ {"previous_hash"}] >>,
      << [WellFormedBlock EXCEPT !.transactions = "str"] >>,
      << [WellFormedBlock EXCEPT !.transactions = "None"] >>,
      << [WellFormedBlock EXCEPT !.hash = "empty"] >> }

\* min(a, b)
Min(a, b) == IF a <= b THEN a ELSE b

\* int(x) for x = num / den with den > 0: truncation toward zero
IntOf(num, den) ==
    IF num >= 0 THEN num \div den ELSE 0 - ((0 - num) \div den)

calculate_required_votes_no_increment(nodes, vote_threshold) ==
    Min(IntOf(Len(nodes) * vote_threshold[1], vote_threshold[2]), Len(nodes))

calculate_required_votes_uncapped(nodes, vote_threshold) ==
    IntOf(Len(nodes) * vote_threshold[1], vote_threshold[2]) + 1

calculate_required_votes_excess(nodes, vote_threshold) ==
    (IntOf(Len(nodes) * vote_threshold[1], vote_threshold[2]) + 1) - Len(nodes)

\* ConsensusEngine._calculate_required_votes
calculate_required_votes(nodes, vote_threshold) ==
    LET total_nodes == Len(nodes)
        required == IntOf(total_nodes * vote_threshold[1], vote_threshold[2]) + 1
    IN  Min(required, total_nodes)

\* validate_block_structure(block): "ok" or why the block is refused
validate_block_structure(block) ==
    IF BlockAttrs \ block.attrs # {} THEN "missing attribute"
    ELSE IF block.index < 0 THEN "negative index"
    ELSE IF block.transactions # "list" THEN "transactions not a list"
    ELSE IF block.hash = "empty" THEN "empty hash"
    ELSE "ok"

\* ConsensusEngine._simulate_node_vote
simulate_node_vote(node, block) ==
    IF node # "default" THEN node
    ELSE IF "transactions" \notin block.attrs THEN "REJECT"
    ELSE IF "previous_hash" \notin block.attrs THEN "REJECT"
    ELSE IF (IF "index" \in block.attrs THEN block.index ELSE 0 - 1) < 0 THEN "REJECT"
    ELSE IF block.transactions # "list" THEN "REJECT"
    ELSE "APPROVE"

CountVotes_present(voting_record, vote) ==
    IF \E i \in 1..Len(voting_record) : voting_record[i].vote = vote THEN 1 ELSE 0

\* how many entries of a voting record carry the given vote
CountVotes(voting_record, vote) ==
    Cardinality({i \in 1..Len(voting_record) : voting_record[i].vote = vote})

\* the else branch of the voting loop: every vote that is neither APPROVE
\* nor REJECT counts as an abstention
CountAbstentions(voting_record) ==
    Cardinality({i \in 1..Len(voting_record) :
                    voting_record[i].vote \notin {"APPROVE", "REJECT"}})

VotingRecord_until_rejected(nodes, block) ==
    LET polled == {i \in 1..Len(nodes) :
                     \A j \in 1..(i - 1) : simulate_node_vote(nodes[j], block) # "REJECT"}
    IN  [i \in 1..Cardinality(polled) |->
            [node |-> i, vote |-> simulate_node_vote(nodes[i], block)]]

\* the voting loop of request_consensus: one poll and one entry per voter, in
\* the order of self.nodes
VotingRecord(nodes, block) ==
    [i \in 1..Len(nodes) |-> [node |-> i, vote |-> simulate_node_vote(nodes[i], block)]]

request_consensus_strict(nodes, vote_threshold, blockArg, use_validator) ==
    IF blockArg = << >> THEN [op |-> "request_consensus", status |-> "ValueError"]
    ELSE LET block == blockArg[1] IN
    IF "transactions" \in block.attrs /\ block.transactions = "None"
    THEN [op |-> "request_consensus", status |-> "TypeError"]
    ELSE IF use_validator /\ validate_block_structure(block) # "ok"
    THEN [ op |-> "request_consensus", status |-> "returned", approved |-> FALSE,
           details |-> [ votes_for |-> 0, votes_against |-> Len(nodes),
                         abstentions |-> 0,
                         reason |-> validate_block_structure(block) ] ]
    ELSE LET voting_record == VotingRecord(nodes, block)
             votes_for == CountVotes(voting_record, "APPROVE")
             votes_against == CountVotes(voting_record, "REJECT")
             required_votes == calculate_required_votes(nodes, vote_threshold)
             consensus_reached == votes_for > required_votes
         IN  [ op |-> "request_consensus", status |-> "returned",
               approved |-> consensus_reached,
               details |-> [ votes_for |-> votes_for,
                             votes_against |-> votes_against,
                             abstentions |-> CountAbstentions(voting_record),
                             required_votes |-> required_votes,
                             total_nodes |-> Len(nodes),
                             voting_record |-> voting_record,
                             consensus_reached |-> consensus_reached ] ]

request_consensus_abstain_counts(nodes, vote_threshold, blockArg, use_validator) ==
    IF blockArg = << >> THEN [op |-> "request_consensus", status |-> "ValueError"]
    ELSE LET block == blockArg[1] IN
    IF "transactions" \in block.attrs /\ block.transactions = "None"
    THEN [op |-> "request_consensus", status |-> "TypeError"]
    ELSE IF use_validator /\ validate_block_structure(block) # "ok"
    THEN [ op |-> "request_consensus", status |-> "returned", approved |-> FALSE,
           details |-> [ votes_for |-> 0, votes_against |-> Len(nodes),
                         abstentions |-> 0,
                         reason |-> validate_block_structure(block) ] ]
    ELSE LET voting_record == VotingRecord(nodes, block)
             votes_for == CountVotes(voting_record, "APPROVE")
             votes_against == CountVotes(voting_record, "REJECT")
             required_votes == calculate_required_votes(nodes, vote_threshold)
             consensus_reached == Len(nodes) - votes_against > required_votes - 1
         IN  [ op |-> "request_consensus", status |-> "returned",
               approved |-> consensus_reached,
               details |-> [ votes_for |-> votes_for,
                             votes_against |-> votes_against,
                             abstentions |-> CountAbstentions(voting_record),
                             required_votes |-> required_votes,
                             total_nodes |-> Len(nodes),
                             voting_record |-> voting_record,
                             consensus_reached |-> consensus_reached ] ]

\* ConsensusEngine.request_consensus(block, validator_func): what it returns
\* or raises.  len(getattr(block, 'transactions', [])) in the banner raises
\* TypeError when transactions is None.
request_consensus(nodes, vote_threshold, blockArg, use_validator) ==
    IF blockArg = << >> THEN [op |-> "request_consensus", status |-> "ValueError"]
    ELSE LET block == blockArg[1] IN
    IF "transactions" \in block.attrs /\ block.transactions = "None"
    THEN [op |-> "request_consensus", status |-> "TypeError"]
    ELSE IF use_validator /\ validate_block_structure(block) # "ok"
    THEN [ op |-> "request_consensus", status |-> "returned", approved |-> FALSE,
           details |-> [ votes_for |-> 0, votes_against |-> Len(nodes),
                         abstentions |-> 0,
                         reason |-> validate_block_structure(block) ] ]
    ELSE LET voting_record == VotingRecord(nodes, block)
             votes_for == CountVotes(voting_record, "APPROVE")
             votes_against == CountVotes(voting_record, "REJECT")
             required_votes == calculate_required_votes(nodes, vote_threshold)
             consensus_reached == votes_for >= required_votes
         IN  [ op |-> "request_consensus", status |-> "returned",
               approved |-> consensus_reached,
               details |-> [ votes_for |-> votes_for,
                             votes_against |-> votes_against,
                             abstentions |-> CountAbstentions(voting_record),
                             required_votes |-> required_votes,
                             total_nodes |-> Len(nodes),
                             voting_record |-> voting_record,
                             consensus_reached |-> consensus_reached ] ]

\* one call of ConsensusEngine.request_consensus
RequestConsensus ==
    /\ \E blockArg \in BlockArgs, use_validator \in BOOLEAN :
          ce_result' = request_consensus(ce_nodes, ce_threshold, blockArg, use_validator)
    /\ UNCHANGED << ce_nodes, ce_threshold, notCe >>

UpdateNodes_unchecked(new_nodes) ==
    /\ ce_result' = [op |-> "update_nodes", status |-> "ok"]
    /\ ce_nodes' = new_nodes

\* ConsensusEngine.update_nodes(new_nodes), for one argument
UpdateNodes(new_nodes) ==
    IF new_nodes = << >>
    THEN /\ ce_result' = [op |-> "update_nodes", status |-> "ValueError"]
         /\ UNCHANGED ce_nodes
    ELSE /\ ce_result' = [op |-> "update_nodes", status |-> "ok"]
         /\ ce_nodes' = new_nodes

update_nodes ==
    /\ \E new_nodes \in Rosters : UpdateNodes(new_nodes)
    /\ UNCHANGED << ce_threshold, notCe >>

\* the vote_threshold arguments of the constructor: the valid ones, 0 and 1.25
ThresholdArgs == Thresholds \cup { <<0, 1>>, <<5, 4>> }

\* ConsensusEngine(nodes, vote_threshold), for one choice of arguments: a
\* constructor that raises leaves the engine in use as it is
Construct(nodes, vote_threshold) ==
    IF nodes = << >>
    THEN /\ ce_result' = [op |-> "construct", status |-> "ValueError"]
         /\ UNCHANGED << ce_nodes, ce_threshold >>
    ELSE IF vote_threshold[1] <= 0 \/ vote_threshold[1] > vote_threshold[2]
    THEN /\ ce_result' = [op |-> "construct", status |-> "ValueError"]
         /\ UNCHANGED << ce_nodes, ce_threshold >>
    ELSE /\ ce_result' = [op |-> "construct", status |-> "ok"]
         /\ ce_nodes' = nodes
         /\ ce_threshold' = vote_threshold

\* the nodes arguments of the constructor
ConstructRosters == { nodes \in Rosters : Len(nodes) <= 1 }

construct ==
    /\ \E nodes \in ConstructRosters, vote_threshold \in ThresholdArgs :
          Construct(nodes, vote_threshold)
    /\ UNCHANGED notCe

NextCe == RequestConsensus \/ update_nodes \/ construct

\* the roster's voters that answer with the given vote whatever the block is
RosterCount(vote) ==
    Cardinality({i \in 1..Len(ce_nodes) : ce_nodes[i] = vote})

\* the APPROVE votes a returned result reports having collected
ApprovalsCast ==
    IF "voting_record" \in DOMAIN ce_result.details
    THEN CountVotes(ce_result.details.voting_record, "APPROVE")
    ELSE 0

\* C5: a block is approved by request_consensus exactly when the APPROVE
\* votes collected from the roster number at least requiredVotes, which is
\* min(n, floor(n * threshold) + 1).  With three voters and threshold 0.5,
\* two APPROVE votes and one REJECT vote approve the block, and one APPROVE
\* vote and two REJECT votes do not.
C5_ApprovedIffEnoughApprovals ==
    (ce_result.op = "request_consensus" /\ ce_result.status = "returned") =>
        LET n == Len(ce_nodes)
            requiredVotes ==
                Min(n, ((n * ce_threshold[1]) \div ce_threshold[2]) + 1)
            voted == "voting_record" \in DOMAIN ce_result.details
        IN  /\ ce_result.approved <=> (ApprovalsCast >= requiredVotes)
            /\ (voted /\ n = 3 /\ ce_threshold = <<1, 2>>
                  /\ RosterCount("APPROVE") = 2 /\ RosterCount("REJECT") = 1)
                 => ce_result.approved
            /\ (voted /\ n = 3 /\ ce_threshold = <<1, 2>>
                  /\ RosterCount("APPROVE") = 1 /\ RosterCount("REJECT") = 2)
                 => ~ce_result.approved

\* two honest voters and one rejecting voter have just approved a block with
\* exactly the required two votes
C5_Witness ==
    /\ ce_result.op = "request_consensus" /\ ce_result.status = "returned"
    /\ Len(ce_nodes) = 3 /\ ce_threshold = <<1, 2>>
    /\ RosterCount("APPROVE") = 2 /\ RosterCount("REJECT") = 1
    /\ "voting_record" \in DOMAIN ce_result.details
    /\ ce_result.details.votes_for = 2
    /\ ce_result.approved

VotesRecorded(vote) ==
    Cardinality({i \in 1..Len(ce_result.details.voting_record) :
                    ce_result.details.voting_record[i].vote = vote})

\* the last call returned after polling the roster
Polled ==
    /\ ce_result.op = "request_consensus"
    /\ ce_result.status = "returned"
    /\ "voting_record" \in DOMAIN ce_result.details

\* the last call returned because the pre-validator refused the block
PreValidationFailed ==
    /\ ce_result.op = "request_consensus"
    /\ ce_result.status = "returned"
    /\ "reason" \in DOMAIN ce_result.details

\* C13: when the pre-validator handed to request_consensus refuses the
\* block, the round fails at once, no voter is polled, and the details
\* returned record zero votes cast: none for, none against, none abstaining.
C13_PreValidationCastsNoVotes ==
    PreValidationFailed =>
        /\ ~ce_result.approved
        /\ "voting_record" \notin DOMAIN ce_result.details
        /\ ce_result.details.votes_for = 0
        /\ ce_result.details.votes_against = 0
        /\ ce_result.details.abstentions = 0

\* C14: every return of request_consensus, passed, failed in the vote or
\* failed in pre-validation, carries votes_for, votes_against, abstentions,
\* required_votes, total_nodes and a voting record with one entry per voter.
C14_DetailsAlwaysComplete ==
    (ce_result.op = "request_consensus" /\ ce_result.status = "returned") =>
        /\ { "votes_for", "votes_against", "abstentions", "required_votes",
             "total_nodes", "voting_record" } \subseteq DOMAIN ce_result.details
        /\ Len(ce_result.details.voting_record) = Len(ce_nodes)

\* C15: an ABSTAIN vote is counted neither for nor against, so a round in
\* which no voter rejects but fewer than requiredVotes voters approve, the
\* others abstaining, is not approved.
C15_AbstainBlocksWithoutReject ==
    Polled =>
        LET n == Len(ce_nodes)
            requiredVotes ==
                Min(n, ((n * ce_threshold[1]) \div ce_threshold[2]) + 1)
        IN  /\ ce_result.details.votes_for = VotesRecorded("APPROVE")
            /\ ce_result.details.votes_against = VotesRecorded("REJECT")
            /\ ce_result.details.abstentions = VotesRecorded("ABSTAIN")
            /\ (VotesRecorded("REJECT") = 0 /\ VotesRecorded("APPROVE") < requiredVotes)
                  => ~ce_result.approved

\* one of three voters approved and two abstained at threshold 0.5: nobody
\* rejected and the block was refused
C15_Witness ==
    /\ Polled
    /\ Len(ce_nodes) = 3 /\ ce_threshold = <<1, 2>>
    /\ VotesRecorded("APPROVE") = 1
    /\ VotesRecorded("ABSTAIN") = 2
    /\ ce_result.details.votes_against = 0
    /\ ~ce_result.approved

\* C16: for every non-empty roster of n voters and every threshold in
\* (0, 1], 1 <= requiredVotes <= n, and a roster of one voter requires
\* exactly one vote; the required_votes a vote count reports obeys the same.
C16_RequiredVotesWithinRoster ==
    LET n == Len(ce_nodes)
        required == calculate_required_votes(ce_nodes, ce_threshold)
    IN  /\ 1 <= required /\ required <= n
        /\ n = 1 => required = 1
        /\ Polled =>
              /\ 1 <= ce_result.details.required_votes
              /\ ce_result.details.required_votes <= n
              /\ n = 1 => ce_result.details.required_votes = 1

\* a single voter at threshold 1.0 was polled with one vote required
C16_Witness ==
    /\ Polled
    /\ Len(ce_nodes) = 1 /\ ce_threshold = <<1, 1>>
    /\ ce_result.details.required_votes = 1

\* C17 as stated: in every approved round the APPROVE votes are strictly
\* more than threshold * roster size, for every threshold in (0, 1].
C17_ApprovalsExceedThresholdShare ==
    (Polled /\ ce_result.approved) =>
        VotesRecorded("APPROVE") * ce_threshold[2] > ce_threshold[1] * Len(ce_nodes)

\* C17: in every approved round the APPROVE votes are strictly more than
\* threshold * roster size when the threshold is below 1, and are the votes
\* of the whole roster when the threshold is 1; at threshold 0.5 exactly
\* half of an even roster approving is never consensus.
C17_ApprovalsExceedShareBelowOne ==
    (Polled /\ ce_result.approved) =>
        LET n == Len(ce_nodes)
            approvals == VotesRecorded("APPROVE")
        IN  /\ ce_threshold[1] < ce_threshold[2] =>
                  approvals * ce_threshold[2] > ce_threshold[1] * n
            /\ ce_threshold[1] = ce_threshold[2] => approvals = n
            /\ ce_threshold = <<1, 2>> => 2 * approvals # n

\* three voters at threshold 1.0 all approved and the block was accepted
C17_Witness ==
    /\ Polled /\ ce_result.approved
    /\ Len(ce_nodes) = 3 /\ ce_threshold = <<1, 1>>
    /\ VotesRecorded("APPROVE") = 3

\* C18: at a fixed threshold requiredVotes is monotonic in the roster size:
\* no shorter roster requires more votes than the current one.
C18_RequiredVotesMonotonic ==
    \A m \in 1..Len(ce_nodes) :
       calculate_required_votes(SubSeq(ce_nodes, 1, m), ce_threshold)
          <= calculate_required_votes(ce_nodes, ce_threshold)

\* the roster has just been replaced by one of MaxVoters voters, which
\* requires more votes than its first voter alone would
C18_Witness ==
    /\ ce_result.op = "update_nodes" /\ ce_result.status = "ok"
    /\ Len(ce_nodes) = MaxVoters
    /\ calculate_required_votes(SubSeq(ce_nodes, 1, 1), ce_threshold)
          < calculate_required_votes(ce_nodes, ce_threshold)

\* C25: the roster is never empty. Constructing an engine with an empty
\* roster fails; update_nodes with an empty roster fails and leaves the
\* previous roster in place; after a successful update_nodes the required
\* number of votes is the one computed from the size of the new roster.
C25_RosterNeverEmpty ==
    [][ /\ ce_nodes # << >>
        /\ ce_nodes' # << >>
        /\ \A vote_threshold \in ThresholdArgs :
              Construct(<< >>, vote_threshold) =>
                 /\ ce_result'.status = "ValueError"
                 /\ ce_nodes' = ce_nodes
        /\ UpdateNodes(<< >>) =>
              /\ ce_result'.status = "ValueError"
              /\ ce_nodes' = ce_nodes
        /\ (ce_result'.op = "update_nodes" /\ ce_result'.status = "ok") =>
              /\ UpdateNodes(ce_nodes')
              /\ calculate_required_votes(ce_nodes', ce_threshold')
                    = Min(Len(ce_nodes'),
                          ((Len(ce_nodes') * ce_threshold[1])
                              \div ce_threshold[2]) + 1)
        /\ Polled' =>
              /\ ce_result'.details.total_nodes = Len(ce_nodes')
              /\ ce_result'.details.required_votes =
                    Min(Len(ce_nodes'),
                        ((Len(ce_nodes') * ce_threshold'[1])
                            \div ce_threshold'[2]) + 1)
      ]_vars

\* update_nodes has just refused an empty roster and a roster of more than
\* one voter is still in place
C25_Witness ==
    /\ ce_result.op = "update_nodes"
    /\ ce_result.status = "ValueError"
    /\ Len(ce_nodes) > 1

\* C33: a round that reaches the voting step polls every voter of the roster
\* exactly once, in roster order, whatever the votes cast before; the voting
\* record has one entry per voter, entry i being the vote of voter i.
C33_EveryVoterPolledInOrder ==
    Polled =>
        LET voting_record == ce_result.details.voting_record IN
        /\ Len(voting_record) = Len(ce_nodes)
        /\ \A i \in 1..Len(ce_nodes) :
              /\ voting_record[i].node = i
              /\ ce_nodes[i] # "default" => voting_record[i].vote = ce_nodes[i]
              /\ ce_nodes[i] = "default" =>
                    voting_record[i].vote \in {"APPROVE", "REJECT"}

\* a round lost at its first vote went on to poll the voters after it
C33_Witness ==
    /\ Polled
    /\ Len(ce_nodes) = MaxVoters
    /\ ce_threshold = << 1, 1 >>
    /\ ce_result.details.voting_record[1].vote = "REJECT"
    /\ ce_result.details.voting_record[2].vote = "ABSTAIN"
    /\ ce_result.details.voting_record[MaxVoters].vote = "APPROVE"
    /\ ~ce_result.approved

\* C34: in the details of a round that reached the voting step the three
\* tallies add up to total_nodes, which is the size of the roster, and the
\* voting record has total_nodes entries.
C34_TalliesAddUpToRoster ==
    Polled =>
        LET details == ce_result.details IN
        /\ details.votes_for + details.votes_against + details.abstentions
              = details.total_nodes
        /\ details.total_nodes = Len(ce_nodes)
        /\ Len(details.voting_record) = details.total_nodes

\* a round in which two voters approved, and the others rejected or abstained
C34_Witness ==
    /\ Polled
    /\ ce_result.details.total_nodes = MaxVoters
    /\ ce_result.details.votes_for >= 2
    /\ ce_result.details.votes_against + ce_result.details.abstentions >= 1

\* ---------------------------------------------------------- persistence.py

MaxEdits == 1       \* edits made by hand to the state file between two saves

\* Python values, [kind, val]: val is the digits of a number, the characters
\* of a string or the items of a list or tuple.
PyInt(n) == [kind |-> "int", val |-> << n >>]
PyFloat(n) == [kind |-> "float", val |-> << n >>]
PyStr(codes) == [kind |-> "str", val |-> codes]
PyList(items) == [kind |-> "list", val |-> items]
PyTuple(items) == [kind |-> "tuple", val |-> items]
PyDict(items) == [kind |-> "dict", val |-> items]
PyNone == [kind |-> "None", val |-> << >>]

\* json.dump of one value: the JSON token it is written as
ToJson(py) ==
    [ kind |-> CASE py.kind = "int" -> "integer"
                 [] py.kind = "float" -> "real"
                 [] py.kind = "str" -> "string"
                 [] py.kind \in {"list", "tuple"} -> "array"
                 [] py.kind = "dict" -> "object"
                 [] py.kind = "None" -> "null",
      val |-> py.val ]

FromJson_numbers_as_float(js) ==
    [ kind |-> CASE js.kind \in {"integer", "real"} -> "float"
                 [] js.kind = "string" -> "str"
                 [] js.kind = "array" -> "list"
                 [] js.kind = "object" -> "dict"
                 [] js.kind = "null" -> "None",
      val |-> js.val ]

\* json.load of one token: the Python value it is read as
FromJson(js) ==
    [ kind |-> CASE js.kind = "integer" -> "int"
                 [] js.kind = "real" -> "float"
                 [] js.kind = "string" -> "str"
                 [] js.kind = "array" -> "list"
                 [] js.kind = "object" -> "dict"
                 [] js.kind = "null" -> "None",
      val |-> js.val ]

\* a list of dicts written to, or read from, JSON
DumpList(collection) ==
    [i \in 1..Len(collection) |->
        [k \in DOMAIN collection[i] |-> ToJson(collection[i][k])]]

LoadList(array) ==
    [i \in 1..Len(array) |-> [k \in DOMAIN array[i] |-> FromJson(array[i][k])]]

\* The keys of the dictionaries that are saved, in sorted order.
SortedKeys ==
    << "action", "allocated", "cpu", "hash", "index", "node_id", "nonce",
       "outcome", "previous_hash", "quotas", "status", "tags", "timestamp",
       "transactions" >>

KeyCode(k) == CHOOSE i \in 1..Len(SortedKeys) : SortedKeys[i] = k

KindCode(kind) ==
    CASE kind = "integer" -> 1
      [] kind = "real" -> 2
      [] kind = "string" -> 3
      [] kind = "array" -> 4
      [] kind = "null" -> 5
      [] kind = "object" -> 6

\* json.dumps(value, sort_keys=True) of one value, one dict, one list of dicts
ValueText(py) == << KindCode(ToJson(py).kind), Len(py.val) >> \o py.val

DictText(d) ==
    LET keys == SelectSeq(SortedKeys, LAMBDA k : k \in DOMAIN d) IN
    << Len(keys) >>
      \o Flatten([i \in 1..Len(keys) |-> << KeyCode(keys[i]) >> \o ValueText(d[keys[i]])])

ListText(collection) ==
    << Len(collection) >>
      \o Flatten([i \in 1..Len(collection) |-> DictText(collection[i])])

\* compute_data_checksum: the digest of the three collections dumped under
\* their sorted keys audit_events, chain, nodes
compute_data_checksum(nodes, blocks, audit_events) ==
    Sha256Hex(ListText(audit_events) \o ListText(blocks) \o ListText(nodes))

\* The dictionaries to_dict() methods hand to save_state, and one audit
\* record that carries a tuple.
NodeDictFloat ==
    [k \in {"node_id", "cpu"} |-> IF k = "node_id" THEN PyStr(<< 1 >>) ELSE PyFloat(4)]
NodeDictInt ==
    [k \in {"node_id", "cpu"} |-> IF k = "node_id" THEN PyStr(<< 1 >>) ELSE PyInt(4)]
BlockDict == [k \in {"index"} |-> PyInt(0)]
EventDict == [k \in {"node_id"} |-> PyStr(<< 2 >>)]
EventDictTuple ==
    [k \in {"node_id", "tags"} |->
        IF k = "node_id" THEN PyStr(<< 2 >>) ELSE PyTuple(<< 1, 2 >>)]

Snapshots ==
    { [nodes |-> << >>, chain |-> << >>, audit_events |-> << >>],
      [nodes |-> << NodeDictFloat >>, chain |-> << >>, audit_events |-> << >>],
      [nodes |-> << NodeDictInt >>, chain |-> << BlockDict >>,
       audit_events |-> << EventDict >>],
      [nodes |-> << NodeDictFloat >>, chain |-> << BlockDict >>,
       audit_events |-> << EventDictTuple >>] }

\* The payload json.dump writes, in the order of its keys; a file holds the
\* payload and how many of its members have reached the disk.
PayloadKeys == << "nodes", "chain", "audit_events", "checksum" >>

Payload(snapshot) ==
    [ nodes |-> DumpList(snapshot.nodes),
      chain |-> DumpList(snapshot.chain),
      audit_events |-> DumpList(snapshot.audit_events),
      checksum |-> << ToJson(PyStr(compute_data_checksum(
                          snapshot.nodes, snapshot.chain, snapshot.audit_events))) >> ]

CompleteFile(snapshot) ==
    << [doc |-> Payload(snapshot), written |-> Len(PayloadKeys)] >>

\* file names: file_path, and what tempfile.mkstemp returns in its directory
StateFile == "system_state.json"
FileNames == {"system_state.json", ".tmp_state_.json"}

mkstemp_in_place(file_path) == file_path

mkstemp(file_path) == ".tmp_state_.json"

\* bool(value) is False
Falsy(py) ==
    \/ py.kind = "None"
    \/ py.kind \in {"str", "list", "tuple"} /\ py.val = << >>
    \/ py.kind \in {"int", "float"} /\ py.val = << 0 >>

\* data.get("checksum") of a parsed file
StoredChecksum(doc) ==
    IF doc.checksum = << >> THEN PyNone ELSE FromJson(doc.checksum[1])

\* the checksum recomputed over the collections parsed from a file
ComputedChecksum(doc) ==
    PyStr(compute_data_checksum(LoadList(doc.nodes), LoadList(doc.chain),
                                LoadList(doc.audit_events)))

\* verify_data_integrity(data): the mismatch message slices the stored
\* checksum, which raises TypeError when that is a number
verify_data_integrity(doc) ==
    IF Falsy(StoredChecksum(doc)) THEN [status |-> "returned", ok |-> FALSE]
    ELSE IF StoredChecksum(doc) # ComputedChecksum(doc)
    THEN IF StoredChecksum(doc).kind \in {"str", "list"}
         THEN [status |-> "returned", ok |-> FALSE]
         ELSE [status |-> "TypeError", ok |-> FALSE]
    ELSE [status |-> "returned", ok |-> TRUE]

\* load_state(file_path), given the file at file_path (<< >>: no such file)
load_state_missing_unverified(file) ==
    IF file = << >>
    THEN [ op |-> "load_state", status |-> "returned",
           data |-> << [ nodes |-> << >>, chain |-> << >>, audit_events |-> << >>,
                         checksum |-> PyNone, integrity_ok |-> FALSE ] >> ]
    ELSE [op |-> "load_state", status |-> "JSONDecodeError", data |-> << >>]

\* load_state(file_path), given the file at that path
load_state(file) ==
    IF file = << >>
    THEN [ op |-> "load_state", status |-> "returned",
           data |-> << [ nodes |-> << >>, chain |-> << >>, audit_events |-> << >>,
                         checksum |-> PyNone, integrity_ok |-> TRUE ] >> ]
    ELSE IF file[1].written < Len(PayloadKeys)
    THEN [op |-> "load_state", status |-> "JSONDecodeError", data |-> << >>]
    ELSE LET doc == file[1].doc
             verdict == verify_data_integrity(doc)
         IN  IF verdict.status # "returned"
             THEN [op |-> "load_state", status |-> verdict.status, data |-> << >>]
             ELSE [ op |-> "load_state", status |-> "returned",
                    data |-> << [ nodes |-> LoadList(doc.nodes),
                                  chain |-> LoadList(doc.chain),
                                  audit_events |-> LoadList(doc.audit_events),
                                  checksum |-> StoredChecksum(doc),
                                  integrity_ok |-> verdict.ok ] >> ]

\* os.replace(src, dst)
Replace(files, src, dst) ==
    [n \in DOMAIN files |->
        IF n = dst THEN files[src] ELSE IF n = src THEN << >> ELSE files[n]]

\* save_state up to tempfile.mkstemp: the checksum and the payload are
\* computed and an empty temporary file exists
save_state_begin ==
    /\ sv_pc = "idle"
    /\ \E snapshot \in Snapshots :
          /\ sv_args' = << snapshot >>
          /\ fs' = [fs EXCEPT ![mkstemp(StateFile)] =
                        << [doc |-> Payload(snapshot), written |-> 0] >>]
    /\ sv_pc' = "writing"
    /\ st_result' = [op |-> "save_state", status |-> "running", data |-> << >>]
    /\ UNCHANGED << fs_committed, fs_edited, notSt >>

\* json.dump(payload, f): one more member of the payload reaches the disk;
\* after the last one the file is closed
save_state_write ==
    /\ sv_pc = "writing"
    /\ LET temp_path == mkstemp(StateFile)
           written == fs[temp_path][1].written + 1
       IN  /\ fs' = [fs EXCEPT ![temp_path] = << [@[1] EXCEPT !.written = written] >>]
           /\ sv_pc' = IF written = Len(PayloadKeys) THEN "closed" ELSE "writing"
    /\ st_result' = [op |-> "save_state", status |-> "running", data |-> << >>]
    /\ UNCHANGED << sv_args, fs_committed, fs_edited, notSt >>

\* os.replace(temp_path, file_path), after which save_state returns
save_state_replace ==
    /\ sv_pc = "closed"
    /\ fs' = Replace(fs, mkstemp(StateFile), StateFile)
    /\ fs_committed' = sv_args
    /\ fs_edited' = 0
    /\ sv_pc' = "idle"
    /\ sv_args' = << >>
    /\ st_result' = [op |-> "save_state", status |-> "ok", data |-> << >>]
    /\ UNCHANGED notSt

save_state_fail_keeps_temp ==
    /\ sv_pc \in {"writing", "closed"}
    /\ sv_pc' = "idle"
    /\ sv_args' = << >>
    /\ st_result' = [op |-> "save_state", status |-> "raised", data |-> << >>]
    /\ UNCHANGED << fs, fs_committed, fs_edited, notSt >>

\* json.dump raises (the disk is full) or os.replace raises: the temporary
\* file is unlinked and the exception is raised again
save_state_fail ==
    /\ sv_pc \in {"writing", "closed"}
    /\ fs' = [fs EXCEPT ![mkstemp(StateFile)] = << >>]
    /\ sv_pc' = "idle"
    /\ sv_args' = << >>
    /\ st_result' = [op |-> "save_state", status |-> "raised", data |-> << >>]
    /\ UNCHANGED << fs_committed, fs_edited, notSt >>

\* the process is killed inside save_state; nothing of it runs any more
kill ==
    /\ sv_pc # "idle"
    /\ sv_pc' = "idle"
    /\ sv_args' = << >>
    /\ st_result' = [op |-> "save_state", status |-> "killed", data |-> << >>]
    /\ UNCHANGED << fs, fs_committed, fs_edited, notSt >>

\* one call of load_state(file_path), by this process or another
load ==
    /\ st_result' = load_state(fs[StateFile])
    /\ UNCHANGED << fs, sv_pc, sv_args, fs_committed, fs_edited, notSt >>

\* what somebody editing the file puts in place of the stored checksum:
\* nothing, null, "", a number, another digest
ChecksumEdits ==
    { << >>, << ToJson(PyNone) >>, << ToJson(PyStr(<< >>)) >>,
      << ToJson(PyInt(0)) >>, << ToJson(PyInt(12345)) >>,
      << ToJson(PyStr(ForgedHash)) >> }

\* the stored checksum of the state file is edited by hand
edit_checksum ==
    /\ sv_pc = "idle"
    /\ fs[StateFile] # << >>
    /\ fs_edited < MaxEdits
    /\ \E slot \in ChecksumEdits :
          fs' = [fs EXCEPT ![StateFile] = << [@[1] EXCEPT !.doc.checksum = slot] >>]
    /\ fs_edited' = fs_edited + 1
    /\ st_result' = [op |-> "edit", status |-> "ok", data |-> << >>]
    /\ UNCHANGED << sv_pc, sv_args, fs_committed, notSt >>

\* one of the three collections of the state file is edited by hand
edit_collection ==
    /\ sv_pc = "idle"
    /\ fs[StateFile] # << >>
    /\ fs_edited < MaxEdits
    /\ \E snapshot \in Snapshots, key \in {"nodes", "chain", "audit_events"} :
          /\ Payload(snapshot)[key] # fs[StateFile][1].doc[key]
          /\ fs' = [fs EXCEPT ![StateFile] =
                        << [@[1] EXCEPT !.doc[key] = Payload(snapshot)[key]] >>]
    /\ fs_edited' = fs_edited + 1
    /\ st_result' = [op |-> "edit", status |-> "ok", data |-> << >>]
    /\ UNCHANGED << sv_pc, sv_args, fs_committed, notSt >>

NextSt ==
    \/ save_state_begin \/ save_state_write \/ save_state_replace
    \/ save_state_fail \/ kill \/ load \/ edit_checksum \/ edit_collection

\* C7: save_state writes into a fresh temporary file and renames it over the
\* destination, so whatever happens to the saving process, a kill included,
\* the destination is absent (nothing was ever saved) or holds, complete,
\* the snapshot of the last save_state call that got to its rename: the
\* previous snapshot until the rename and the new one from then on.
C7_DestinationNeverPartial ==
    fs_edited = 0 =>
        /\ fs[StateFile] = IF fs_committed = << >> THEN << >>
                           ELSE CompleteFile(fs_committed[1])
        /\ sv_pc # "idle" =>
              /\ fs[mkstemp(StateFile)] # << >>
              /\ fs[mkstemp(StateFile)][1].doc = Payload(sv_args[1])

\* a save was killed with its temporary file half written while the
\* destination still holds, complete, the different snapshot saved before
C7_Witness ==
    /\ st_result.op = "save_state" /\ st_result.status = "killed"
    /\ fs_committed # << >>
    /\ fs[StateFile] = CompleteFile(fs_committed[1])
    /\ fs[mkstemp(StateFile)] # << >>
    /\ fs[mkstemp(StateFile)][1].written \in 1..(Len(PayloadKeys) - 1)
    /\ fs[mkstemp(StateFile)][1].doc # fs[StateFile][1].doc

\* no value of the snapshot is a tuple, which JSON has no token for
JsonNative(snapshot) ==
    \A key \in {"nodes", "chain", "audit_events"} :
       \A i \in 1..Len(snapshot[key]) :
          \A k \in DOMAIN snapshot[key][i] : snapshot[key][i][k].kind # "tuple"

C9_TamperReportedDataKept ==
    ( /\ st_result.op = "load_state"
      /\ fs[StateFile] # << >>
      /\ fs[StateFile][1].written = Len(PayloadKeys)
      /\ \/ fs[StateFile][1].doc.checksum = << >>
         \/ StoredChecksum(fs[StateFile][1].doc) # ComputedChecksum(fs[StateFile][1].doc) )
    => /\ st_result.status = "returned"
       /\ ~st_result.data[1].integrity_ok
       /\ st_result.data[1].nodes = LoadList(fs[StateFile][1].doc.nodes)
       /\ st_result.data[1].chain = LoadList(fs[StateFile][1].doc.chain)
       /\ st_result.data[1].audit_events = LoadList(fs[StateFile][1].doc.audit_events)

\* C26: load_state on a path where no file exists returns the empty snapshot
\* (no nodes, no chain, no audit events) with integrity_ok true, and creates
\* no file.
C26_LoadMissingFileIsEmpty ==
    [][ (st_result'.op = "load_state" /\ fs[StateFile] = << >>) =>
           /\ st_result'.status = "returned"
           /\ st_result'.data[1].nodes = << >>
           /\ st_result'.data[1].chain = << >>
           /\ st_result'.data[1].audit_events = << >>
           /\ st_result'.data[1].integrity_ok
           /\ fs' = fs
      ]_vars

\* load_state has just answered for a missing state file, next to the
\* temporary file a killed save_state left behind
C26_Witness ==
    /\ st_result.op = "load_state"
    /\ st_result.status = "returned"
    /\ fs[StateFile] = << >>
    /\ fs[mkstemp(StateFile)] # << >>
    /\ st_result.data[1].integrity_ok

Savers == {1, 2}

\* names tempfile.mkstemp(dir=dir_path, prefix=".tmp_state_", suffix=".json")
\* can return
TempNames == {".tmp_state_a.json", ".tmp_state_b.json"}
SaverFileNames == {StateFile} \cup TempNames

\* a file that has just been created: none of the payload is in it
EmptyDoc == [key \in {"nodes", "chain", "audit_events", "checksum"} |-> << >>]

mkstemp_names_reused(files) == TempNames

\* tempfile.mkstemp creates its file with O_EXCL: the name it returns is one
\* no file of the directory has
mkstemp_names(files) == {n \in TempNames : files[n] = << >>}

NoSave == << >>

\* what the saver actions leave unchanged
notCs == << sv_pc, sv_args, fs_edited, chainVars, ctlVars, rmVars, ceVars, thVars, icVars >>

\* save_state up to tempfile.mkstemp, in call t
cs_begin(t) ==
    /\ cs_pc[t] = "idle"
    /\ \E snapshot \in Snapshots, temp_path \in mkstemp_names(fs) :
          /\ cs_loc' = [cs_loc EXCEPT ![t] = << [ snapshot |-> snapshot,
                                                  temp_path |-> temp_path,
                                                  written |-> 0 ] >>]
          /\ fs' = [fs EXCEPT ![temp_path] = << [doc |-> EmptyDoc, written |-> 0] >>]
    /\ cs_pc' = [cs_pc EXCEPT ![t] = "writing"]
    /\ st_result' = [op |-> "save_state", status |-> "running", data |-> << >>]
    /\ UNCHANGED << fs_committed, notCs >>

\* json.dump(payload, f) of call t: the next member of its payload goes
\* through its file descriptor at its own offset; after the last one the
\* file is closed. A file unlinked meanwhile has no name to be seen under.
cs_write(t) ==
    /\ cs_pc[t] = "writing"
    /\ LET loc == cs_loc[t][1]
           written == loc.written + 1
           key == PayloadKeys[written]
       IN  /\ fs' = IF fs[loc.temp_path] = << >> THEN fs
                    ELSE [fs EXCEPT ![loc.temp_path] =
                            << [ doc |-> [@[1].doc EXCEPT
                                            ![key] = Payload(loc.snapshot)[key]],
                                 written |-> written ] >>]
           /\ cs_loc' = [cs_loc EXCEPT ![t] = << [loc EXCEPT !.written = written] >>]
           /\ cs_pc' = [cs_pc EXCEPT ![t] =
                          IF written = Len(PayloadKeys) THEN "closed" ELSE "writing"]
    /\ st_result' = [op |-> "save_state", status |-> "running", data |-> << >>]
    /\ UNCHANGED << fs_committed, notCs >>

\* os.replace(temp_path, file_path) of call t, after which it returns
cs_replace(t) ==
    /\ cs_pc[t] = "closed"
    /\ fs[cs_loc[t][1].temp_path] # << >>
    /\ fs' = Replace(fs, cs_loc[t][1].temp_path, StateFile)
    /\ fs_committed' = << cs_loc[t][1].snapshot >>
    /\ cs_pc' = [cs_pc EXCEPT ![t] = "idle"]
    /\ cs_loc' = [cs_loc EXCEPT ![t] = NoSave]
    /\ st_result' = [op |-> "save_state", status |-> "ok", data |-> << >>]
    /\ UNCHANGED notCs

\* json.dump or os.replace of call t raises: its temporary file is unlinked
\* and the exception is raised again
cs_fail(t) ==
    /\ cs_pc[t] \in {"writing", "closed"}
    /\ fs' = [fs EXCEPT ![cs_loc[t][1].temp_path] = << >>]
    /\ cs_pc' = [cs_pc EXCEPT ![t] = "idle"]
    /\ cs_loc' = [cs_loc EXCEPT ![t] = NoSave]
    /\ st_result' = [op |-> "save_state", status |-> "raised", data |-> << >>]
    /\ UNCHANGED << fs_committed, notCs >>

NextCs == \E t \in Savers : cs_begin(t) \/ cs_write(t) \/ cs_replace(t) \/ cs_fail(t)

\* C38: when two save_state calls on the same destination run at the same
\* time, each writes a temporary file of its own, holding its own payload as
\* far as it has got, and at every moment the destination is the complete
\* file of one snapshot, stored checksum matching its contents: the one of
\* the last call that renamed, the previous one until a call renames
\* (nothing where there was no file before), never a mix of the two.
C38_ConcurrentSavesNeverMix ==
    /\ \A t, u \in Savers :
          (t # u /\ cs_pc[t] # "idle" /\ cs_pc[u] # "idle")
              => cs_loc[t][1].temp_path # cs_loc[u][1].temp_path
    /\ \A t \in Savers :
          cs_pc[t] # "idle" =>
              LET loc == cs_loc[t][1]
              IN  /\ fs[loc.temp_path] # << >>
                  /\ fs[loc.temp_path][1].written = loc.written
                  /\ \A k \in 1..Len(PayloadKeys) :
                        fs[loc.temp_path][1].doc[PayloadKeys[k]] =
                            IF k <= loc.written
                            THEN Payload(loc.snapshot)[PayloadKeys[k]] ELSE << >>
    /\ fs[StateFile] = IF fs_committed = << >> THEN << >>
                       ELSE CompleteFile(fs_committed[1])
    /\ fs[StateFile] # << >> =>
          /\ load_state(fs[StateFile]).status = "returned"
          /\ load_state(fs[StateFile]).data[1].integrity_ok
          /\ \E snapshot \in Snapshots : fs[StateFile] = CompleteFile(snapshot)

\* a call has just renamed its file over the destination, which held another
\* snapshot before, while the other call, saving a third snapshot, has part
\* of its payload in its own temporary file
C38_Witness ==
    /\ st_result.op = "save_state" /\ st_result.status = "ok"
    /\ fs[StateFile] # << >>
    /\ \E t \in Savers :
          /\ cs_pc[t] = "writing"
          /\ cs_loc[t][1].written \in 1..(Len(PayloadKeys) - 1)
          /\ fs[cs_loc[t][1].temp_path][1].written = cs_loc[t][1].written
          /\ Payload(cs_loc[t][1].snapshot) # fs[StateFile][1].doc
          /\ \A u \in Savers \ {t} : cs_pc[u] = "idle"

\* ------------------------------------------------------------ controller.py
\* MainController._handle_socket_client runs handle_command in one thread per
\* client, and handle_command takes no lock: the statements of
\* Controller.request_resource / release_resource of different threads
\* interleave.

Threads == {"t1", "t2"}

NoLocals == [tx |-> << >>, block |-> << >>, old |-> 0]

\* the threads that are inside a command
Busy == {t \in Threads : th_pc[t] # "idle"}

\* request_resource / release_resource up to and including
\* _validate_request and the construction of the transaction
th_validate(t) ==
    /\ th_pc[t] = "idle"
    /\ Len(ctl_chain) + Cardinality(Busy) < MaxChain
    /\ \E node_id \in NodeIds, resource_type \in ResourceInputs,
          amount \in AmountInputs, tx_type \in {"allocate", "release"},
          ts \in CliTimes :
          IF validate_request(ctl_nodes, node_id, resource_type, amount, tx_type) = "ok"
          THEN /\ th_pc' = [th_pc EXCEPT ![t] = "validated"]
               /\ th_loc' = [th_loc EXCEPT ![t] =
                     [NoLocals EXCEPT !.tx =
                         << CliTransaction(node_id, resource_type, amount, tx_type, ts) >>]]
          ELSE UNCHANGED << th_pc, th_loc >>
    /\ UNCHANGED << ctlVars, th_obs, notTh >>

\* propose_and_commit: _create_block_with_single_tx and _simulate_consensus
th_propose(t) ==
    /\ th_pc[t] = "validated"
    /\ \E ts \in CliTimes :
          LET block == create_block_with_single_tx(ctl_chain, th_loc[t].tx[1], ts) IN
          IF simulate_consensus(ctl_nodes, block)
          THEN /\ th_pc' = [th_pc EXCEPT ![t] = "approved"]
               /\ th_loc' = [th_loc EXCEPT ![t].block = << block >>]
          ELSE /\ th_pc' = [th_pc EXCEPT ![t] = "idle"]
               /\ th_loc' = [th_loc EXCEPT ![t] = NoLocals]
    /\ UNCHANGED << ctlVars, th_obs, notTh >>

\* _apply_transaction, the read of node.allocated[tx.resource_type]
th_apply_read(t) ==
    /\ th_pc[t] = "approved"
    /\ LET tx == th_loc[t].tx[1] IN
          th_loc' = [th_loc EXCEPT ![t].old =
                         ctl_nodes[tx.node_id].allocated[tx.resource_type]]
    /\ th_pc' = [th_pc EXCEPT ![t] = "read"]
    /\ UNCHANGED << ctlVars, th_obs, notTh >>

\* _apply_transaction, the store into node.allocated[tx.resource_type]
th_apply_write(t) ==
    /\ th_pc[t] = "read"
    /\ LET tx == th_loc[t].tx[1]
           old == th_loc[t].old
       IN  ctl_nodes' = [ctl_nodes EXCEPT ![tx.node_id].allocated[tx.resource_type] =
               IF tx.transaction_type = "allocate" THEN old + tx.amount
               ELSE IF old - tx.amount < 1 THEN 0 ELSE old - tx.amount]
    /\ th_pc' = [th_pc EXCEPT ![t] = "applied"]
    /\ UNCHANGED << ctl_chain, ctl_result, th_loc, th_obs, notTh >>

\* self.chain.append(block), after which the command returns
th_append(t) ==
    /\ th_pc[t] = "applied"
    /\ ctl_chain' = Append(ctl_chain, th_loc[t].block[1])
    /\ ctl_result' = [ op |-> "request_resource", status |-> "committed",
                       approved |-> TRUE, block |-> th_loc[t].block ]
    /\ th_pc' = [th_pc EXCEPT ![t] = "idle"]
    /\ th_loc' = [th_loc EXCEPT ![t] = NoLocals]
    /\ UNCHANGED << ctl_nodes, th_obs, notTh >>

\* a client's status / view_chain command reads the ledger and the chain
th_observe(t) ==
    /\ th_pc[t] = "idle"
    /\ th_obs' = [nodes |-> ctl_nodes, blocks |-> ctl_chain]
    /\ UNCHANGED << ctlVars, th_pc, th_loc, notTh >>

NextTh ==
    \/ add_node
    \/ \E t \in Threads :
          \/ th_validate(t) \/ th_propose(t) \/ th_apply_read(t)
          \/ th_apply_write(t) \/ th_append(t) \/ th_observe(t)

RECURSIVE ReplayAllocated(_, _, _)
\* what the transactions of the blocks of a chain add up to for one node and
\* one resource, applied in chain order as _apply_transaction applies them
ReplayAllocated(ch, node_id, resource_type) ==
    IF ch = << >> THEN 0
    ELSE LET before == ReplayAllocated(SubSeq(ch, 1, Len(ch) - 1), node_id, resource_type)
             txs == ch[Len(ch)].transactions
         IN  IF txs = << >> \/ txs[1].node_id # node_id
                            \/ txs[1].resource_type # resource_type
             THEN before
             ELSE IF txs[1].transaction_type = "allocate" THEN before + txs[1].amount
             ELSE IF before - txs[1].amount < 1 THEN 0 ELSE before - txs[1].amount

\* C10: with one thread per client running commands against the same
\* Controller, whatever a client reads shows every operation entirely or
\* not at all: each allocation the ledger shows is what the transactions of
\* the blocks in the chain add up to, no allocation without its block and no
\* block without its ledger update.
C10_OperationsAppearAtomic ==
    \A n \in DOMAIN th_obs.nodes : \A r \in VALID_RESOURCES :
       th_obs.nodes[n].allocated[r] = ReplayAllocated(th_obs.blocks, n, r)

\* C36: with two threads each creating a block on the same chain (reading
\* its length and the hash of its head, computing the block, appending it),
\* no two blocks of the chain carry the same index or the same
\* previous_hash, and the chain stays valid: block i has index i and points
\* at the hash of the block before it.
C36_ConcurrentBlocksKeepChainValid ==
    /\ \A i, j \in 1..Len(ctl_chain) :
          i # j => /\ ctl_chain[i].index # ctl_chain[j].index
                   /\ ctl_chain[i].previous_hash # ctl_chain[j].previous_hash
    /\ \A i \in 1..Len(ctl_chain) :
          /\ ctl_chain[i].index = i - 1
          /\ ctl_chain[i].hash = cli_compute_hash(ctl_chain[i])
          /\ i > 1 => ctl_chain[i].previous_hash = ctl_chain[i - 1].hash

\* C37: with two allocations for the same node and resource running in two
\* threads, each checking the quota and then applying, allocated[resource]
\* never exceeds quotas[resource], and once both have returned
\* allocated[resource] is the sum of the amounts of the allocations in the
\* chain.
C37_ConcurrentAllocationsWithinQuota ==
    \A n \in DOMAIN ctl_nodes : \A r \in VALID_RESOURCES :
       /\ ctl_nodes[n].allocated[r] <= ctl_nodes[n].quotas[r]
       /\ ( /\ Busy = {}
            /\ \A i \in 2..Len(ctl_chain) :
                  ctl_chain[i].transactions[1].transaction_type = "allocate" )
           => ctl_nodes[n].allocated[r] = ChainSum(ctl_chain, n, r)

\* ------------------------------------- controller.py: state across restarts

\* the strings of transactions, and the string a code stands for
TxStrings ==
    { "A", "B", "CPU", "Memory", "Storage", "Bandwidth", "allocate", "release",
      "add_node" }
StrOf(code) == CHOOSE str \in TxStrings : StrCode(str) = code

\* the resource kinds in the order handle_command builds a quotas dict
ResourceOrder == << "CPU", "Memory", "Storage", "Bandwidth" >>

\* dict(self.quotas), dict(self.allocated): the members of the dict, and the
\* dict of such members
DictItems(d) ==
    LET keys == SelectSeq(ResourceOrder, LAMBDA r : r \in DOMAIN d) IN
    Flatten([i \in 1..Len(keys) |-> << StrCode(keys[i]), d[keys[i]] >>])

ItemsDict(items) ==
    LET n == Len(items) \div 2 IN
    [r \in { StrOf(items[2 * i - 1]) : i \in 1..n } |->
        LET i == CHOOSE j \in 1..n : StrOf(items[2 * j - 1]) = r IN items[2 * i]]

\* Node.to_dict
Node_to_dict(node_id, node) ==
    [k \in {"node_id", "quotas", "allocated", "status"} |->
        CASE k = "node_id" -> PyStr(<< StrCode(node_id) >>)
          [] k = "quotas" -> PyDict(DictItems(node.quotas))
          [] k = "allocated" -> PyDict(DictItems(node.allocated))
          [] k = "status" -> PyStr(<< StrCode("active") >>)]

Node_from_dict_quotas_only(data) == Node(ItemsDict(data["quotas"].val))

\* Node.from_dict, with the __post_init__ of the Node it constructs
Node_from_dict(data) ==
    LET quotas == ItemsDict(data["quotas"].val)
        allocated == ItemsDict(data["allocated"].val)
    IN  [ quotas |-> quotas,
          allocated |-> [r \in DOMAIN allocated \cup DOMAIN quotas |->
                            IF r \in DOMAIN allocated THEN allocated[r] ELSE 0] ]

\* the transaction dictionaries of a block, written out and read back
TxOf(codes) ==
    [ amount |-> codes[1], node_id |-> StrOf(codes[2]),
      resource_type |-> StrOf(codes[3]), timestamp |-> codes[4],
      transaction_type |-> StrOf(codes[5]) ]

TxsOf(codes) ==
    [i \in 1..(Len(codes) \div 5) |-> TxOf(SubSeq(codes, 5 * i - 4, 5 * i))]

\* Block.to_dict
Block_to_dict(block) ==
    [k \in {"index", "timestamp", "transactions", "previous_hash", "nonce", "hash"} |->
        CASE k = "index" -> PyInt(block.index)
          [] k = "timestamp" -> PyFloat(block.timestamp)
          [] k = "transactions" ->
                PyList(Flatten([i \in 1..Len(block.transactions) |->
                                   TxText(block.transactions[i])]))
          [] k = "previous_hash" -> PyStr(block.previous_hash)
          [] k = "nonce" -> PyInt(block.nonce)
          [] k = "hash" -> PyStr(block.hash)]

Block_from_dict_rehashed(data) ==
    LET block == [ index |-> data["index"].val[1],
                   timestamp |-> data["timestamp"].val[1],
                   transactions |-> TxsOf(data["transactions"].val),
                   previous_hash |-> data["previous_hash"].val,
                   nonce |-> data["nonce"].val[1],
                   hash |-> << >> ]
    IN  [block EXCEPT !.hash = compute_hash(block)]

\* Block.from_dict
Block_from_dict(data) ==
    [ index |-> data["index"].val[1],
      timestamp |-> data["timestamp"].val[1],
      transactions |-> TxsOf(data["transactions"].val),
      previous_hash |-> data["previous_hash"].val,
      nonce |-> data["nonce"].val[1],
      hash |-> data["hash"].val ]

\* Blockchain.to_dict, Blockchain.from_dict
Blockchain_to_dict(ch) == [i \in 1..Len(ch) |-> Block_to_dict(ch[i])]
Blockchain_from_dict(chain_data) ==
    [i \in 1..Len(chain_data) |-> Block_from_dict(chain_data[i])]

\* Blockchain.from_dict(chain_data, difficulty=2): the difficulty of the
\* Blockchain it builds when the caller names none
DefaultDifficulty == 2

Event(timestamp, node_id, action, outcome) ==
    [k \in {"timestamp", "node_id", "action", "outcome"} |->
        CASE k = "timestamp" -> PyStr(<< timestamp >>)
          [] k = "node_id" -> PyStr(<< StrCode(node_id) >>)
          [] k = "action" -> PyStr(<< StrCode(action) >>)
          [] k = "outcome" -> PyStr(<< StrCode(outcome) >>)]

\* the three collections the controller hands to save_state
SnapshotOf(nodes, ch, events) ==
    LET ids == SelectSeq(<< "A", "B" >>, LAMBDA n : n \in DOMAIN nodes) IN
    [ nodes |-> [i \in 1..Len(ids) |-> Node_to_dict(ids[i], nodes[ids[i]])],
      chain |-> Blockchain_to_dict(ch),
      audit_events |-> events ]

\* save_state(file_path, nodes=..., chain=..., audit_events=...), run to its
\* return
Persist(files, snapshot) == [files EXCEPT ![StateFile] = CompleteFile(snapshot)]

\* the ledger a starting controller builds from the nodes it loaded
NodesOf(node_dicts) ==
    [n \in { StrOf(node_dicts[i]["node_id"].val[1]) : i \in 1..Len(node_dicts) } |->
        LET i == CHOOSE j \in 1..Len(node_dicts) :
                    StrOf(node_dicts[j]["node_id"].val[1]) = n
        IN  Node_from_dict(node_dicts[i])]

\* the vote of the roster on a mined block
Approved(block) ==
    request_consensus(ce_nodes, ce_threshold, << WellFormedBlock >>, TRUE).approved

\* what a command of the controller leaves alone
icFrame ==
    << tampered, lastValid, ctlVars, rm_result, rm_undo, ceVars, sv_pc, sv_args,
       fs_committed, fs_edited, st_result, thVars, csVars >>

\* one committed mutation: the ledger, the block and the audit entry, and
\* then the state file
Commit(op, nodes, tx, node_id) ==
    LET block == NewBlock(chain, tx.timestamp, << tx >>)
        events == Append(ic_audit,
                         Event(tx.timestamp, node_id, tx.transaction_type, "SUCCESS"))
    IN  IF ~Approved(block)
        THEN /\ ic_result' = [op |-> op, status |-> "ConsensusRejected"]
             /\ UNCHANGED << rm_nodes, chain, ic_audit, fs >>
        ELSE /\ rm_nodes' = nodes
             /\ chain' = Append(chain, block)
             /\ ic_audit' = events
             /\ fs' = Persist(fs, SnapshotOf(nodes, Append(chain, block), events))
             /\ ic_result' = [op |-> op, status |-> "committed"]

\* handle_command("add_node <node_id> <cpu>"): the quotas left out are 0.0,
\* and the founding transaction of a node names CPU and a zero amount
ic_add_node ==
    /\ Len(chain) <= MaxChain
    /\ \E node_id \in NodeIds, cpu \in {1, MaxQuota}, ts \in CliTimes :
          IF node_id \in DOMAIN rm_nodes
          THEN /\ ic_result' = [op |-> "add_node", status |-> "ValidationError"]
               /\ UNCHANGED << rm_nodes, chain, ic_audit, fs >>
          ELSE Commit("add_node",
                      [n \in DOMAIN rm_nodes \cup {node_id} |->
                          IF n = node_id
                          THEN Node([r \in {"CPU", "Memory", "Storage", "Bandwidth"} |->
                                        IF r = "CPU" THEN cpu ELSE 0])
                          ELSE rm_nodes[n]],
                      [ node_id |-> node_id, resource_type |-> "CPU",
                        amount |-> 0, transaction_type |-> "add_node",
                        timestamp |-> ts ],
                      node_id)
    /\ UNCHANGED icFrame

\* handle_command("request_resource <node_id> <resource> <amount>")
ic_request_resource ==
    /\ Len(chain) <= MaxChain
    /\ \E node_id \in NodeIds, resource \in {"CPU"},
          amount \in AmountInputs, ts \in CliTimes :
          IF \/ node_id \notin DOMAIN rm_nodes
             \/ amount <= 0
             \/ allocate_error(rm_nodes[node_id], resource, amount) # "ok"
          THEN /\ ic_result' = [op |-> "request_resource", status |-> "ValidationError"]
               /\ UNCHANGED << rm_nodes, chain, ic_audit, fs >>
          ELSE Commit("request_resource",
                      [rm_nodes EXCEPT ![node_id] = allocate(@, resource, amount)],
                      [ node_id |-> node_id, resource_type |-> resource,
                        amount |-> amount, transaction_type |-> "allocate",
                        timestamp |-> ts ],
                      node_id)
    /\ UNCHANGED icFrame

\* handle_command("release_resource <node_id> <resource> <amount>")
ic_release_resource ==
    /\ Len(chain) <= MaxChain
    /\ \E node_id \in NodeIds, resource \in {"CPU"},
          amount \in AmountInputs, ts \in CliTimes :
          IF \/ node_id \notin DOMAIN rm_nodes
             \/ amount <= 0
             \/ release_error(rm_nodes[node_id], resource, amount) # "ok"
          THEN /\ ic_result' = [op |-> "release_resource", status |-> "ValidationError"]
               /\ UNCHANGED << rm_nodes, chain, ic_audit, fs >>
          ELSE Commit("release_resource",
                      [rm_nodes EXCEPT ![node_id] = release(@, resource, amount)],
                      [ node_id |-> node_id, resource_type |-> resource,
                        amount |-> amount, transaction_type |-> "release",
                        timestamp |-> ts ],
                      node_id)
    /\ UNCHANGED icFrame

\* MainController(state_file=...) on the state file of the controller before
\* it: what load_state returns becomes the ledger, the chain and the audit
\* events; a controller that loaded no block mines its own genesis block
ic_restart ==
    /\ LET loaded == load_state(fs[StateFile]).data[1] IN
       /\ rm_nodes' = NodesOf(loaded.nodes)
       /\ \E ts \in CliTimes :
             chain' = IF loaded.chain = << >> THEN << GenesisBlock(ts) >>
                      ELSE Blockchain_from_dict(loaded.chain)
       /\ ic_audit' = loaded.audit_events
       /\ ic_result' = [ op |-> "restart",
                         status |-> IF loaded.integrity_ok THEN "ok" ELSE "tampered" ]
    /\ UNCHANGED << fs, icFrame >>

NextIc == ic_add_node \/ ic_request_resource \/ ic_release_resource \/ ic_restart

NotValidated == [ok |-> FALSE, index |-> NoBlock, reason |-> "not called"]

\* the outcome slots after construction
CtlConstructed ==
    [op |-> "init", status |-> "ok", approved |-> FALSE, block |-> << >>]
RmConstructed == [op |-> "init", status |-> "ok"]
CeConstructed == [op |-> "init", status |-> "ok"]
StConstructed == [op |-> "init", status |-> "ok", data |-> << >>]
IcConstructed == [op |-> "init", status |-> "ok"]

\* an empty directory
NoFiles == [n \in FileNames |-> << >>]

\* no save_state calls run side by side
NoCalls == << >>

\* no thread is inside a command
AllIdle == [t \in Threads |-> "idle"]
AllNoLocals == [t \in Threads |-> NoLocals]

\* Blockchain.__init__: the chain holds the mined genesis block
InitChain ==
    /\ \E ts \in 1..MaxTime : chain = << GenesisBlock(ts) >>
    /\ tampered = NoBlock
    /\ lastValid = NotValidated
    /\ ctl_nodes = EmptyMap
    /\ ctl_chain = << CliGenesis(1) >>
    /\ ctl_result = CtlConstructed
    /\ rm_nodes = EmptyMap
    /\ rm_result = RmConstructed
    /\ rm_undo = << >>
    /\ ce_nodes = << "default" >>
    /\ ce_threshold = << 1, 2 >>
    /\ ce_result = CeConstructed
    /\ fs = NoFiles
    /\ sv_pc = "idle"
    /\ sv_args = << >>
    /\ fs_committed = << >>
    /\ fs_edited = 0
    /\ st_result = StConstructed
    /\ th_pc = AllIdle
    /\ th_loc = AllNoLocals
    /\ th_obs = [nodes |-> EmptyMap, blocks |-> << CliGenesis(1) >>]
    /\ ic_audit = << >>
    /\ ic_result = IcConstructed
    /\ cs_pc = NoCalls
    /\ cs_loc = NoCalls

SpecChain == InitChain /\ [][NextChain]_vars

\* Controller.__init__: no nodes, the genesis block
InitCtl ==
    /\ chain = << GenesisBlock(1) >>
    /\ tampered = NoBlock
    /\ lastValid = NotValidated
    /\ ctl_nodes = EmptyMap
    /\ \E ts \in CliTimes : ctl_chain = << CliGenesis(ts) >>
    /\ ctl_result = CtlConstructed
    /\ rm_nodes = EmptyMap
    /\ rm_result = RmConstructed
    /\ rm_undo = << >>
    /\ ce_nodes = << "default" >>
    /\ ce_threshold = << 1, 2 >>
    /\ ce_result = CeConstructed
    /\ fs = NoFiles
    /\ sv_pc = "idle"
    /\ sv_args = << >>
    /\ fs_committed = << >>
    /\ fs_edited = 0
    /\ st_result = StConstructed
    /\ th_pc = AllIdle
    /\ th_loc = AllNoLocals
    /\ th_obs = [nodes |-> EmptyMap, blocks |-> ctl_chain]
    /\ ic_audit = << >>
    /\ ic_result = IcConstructed
    /\ cs_pc = NoCalls
    /\ cs_loc = NoCalls

SpecCtl == InitCtl /\ [][NextCtl]_vars

\* the Controller driven through its commands only
SpecPipeline == InitCtl /\ [][NextPipeline]_vars

\* the same Controller, its commands run by the threads of the socket API
SpecThreads == InitCtl /\ [][NextTh]_vars

\* ResourceManager.__init__: no nodes
InitRm ==
    /\ chain = << GenesisBlock(1) >>
    /\ tampered = NoBlock
    /\ lastValid = NotValidated
    /\ ctl_nodes = EmptyMap
    /\ ctl_chain = << CliGenesis(1) >>
    /\ ctl_result = CtlConstructed
    /\ rm_nodes = EmptyMap
    /\ rm_result = RmConstructed
    /\ rm_undo = << >>
    /\ ce_nodes = << "default" >>
    /\ ce_threshold = << 1, 2 >>
    /\ ce_result = CeConstructed
    /\ fs = NoFiles
    /\ sv_pc = "idle"
    /\ sv_args = << >>
    /\ fs_committed = << >>
    /\ fs_edited = 0
    /\ st_result = StConstructed
    /\ th_pc = AllIdle
    /\ th_loc = AllNoLocals
    /\ th_obs = [nodes |-> EmptyMap, blocks |-> << CliGenesis(1) >>]
    /\ ic_audit = << >>
    /\ ic_result = IcConstructed
    /\ cs_pc = NoCalls
    /\ cs_loc = NoCalls

SpecLedger == InitRm /\ [][NextRm]_vars

\* ConsensusEngine.__init__(nodes, vote_threshold): an empty roster and a
\* threshold outside (0, 1] raise, so an engine starts with neither
InitCe ==
    /\ chain = << GenesisBlock(1) >>
    /\ tampered = NoBlock
    /\ lastValid = NotValidated
    /\ ctl_nodes = EmptyMap
    /\ ctl_chain = << CliGenesis(1) >>
    /\ ctl_result = CtlConstructed
    /\ rm_nodes = EmptyMap
    /\ rm_result = RmConstructed
    /\ rm_undo = << >>
    /\ ce_nodes \in Rosters \ { << >> }
    /\ ce_threshold \in Thresholds
    /\ ce_result = CeConstructed
    /\ fs = NoFiles
    /\ sv_pc = "idle"
    /\ sv_args = << >>
    /\ fs_committed = << >>
    /\ fs_edited = 0
    /\ st_result = StConstructed
    /\ th_pc = AllIdle
    /\ th_loc = AllNoLocals
    /\ th_obs = [nodes |-> EmptyMap, blocks |-> << CliGenesis(1) >>]
    /\ ic_audit = << >>
    /\ ic_result = IcConstructed
    /\ cs_pc = NoCalls
    /\ cs_loc = NoCalls

SpecConsensus == InitCe /\ [][NextCe]_vars

\* no state file has been written yet
InitSt ==
    /\ chain = << GenesisBlock(1) >>
    /\ tampered = NoBlock
    /\ lastValid = NotValidated
    /\ ctl_nodes = EmptyMap
    /\ ctl_chain = << CliGenesis(1) >>
    /\ ctl_result = CtlConstructed
    /\ rm_nodes = EmptyMap
    /\ rm_result = RmConstructed
    /\ rm_undo = << >>
    /\ ce_nodes = << "default" >>
    /\ ce_threshold = << 1, 2 >>
    /\ ce_result = CeConstructed
    /\ fs = NoFiles
    /\ sv_pc = "idle"
    /\ sv_args = << >>
    /\ fs_committed = << >>
    /\ fs_edited = 0
    /\ st_result = StConstructed
    /\ th_pc = AllIdle
    /\ th_loc = AllNoLocals
    /\ th_obs = [nodes |-> EmptyMap, blocks |-> << CliGenesis(1) >>]
    /\ ic_audit = << >>
    /\ ic_result = IcConstructed
    /\ cs_pc = NoCalls
    /\ cs_loc = NoCalls

SpecStore == InitSt /\ [][NextSt]_vars

\* MainController.__init__ on a directory without a state file; the roster
\* approves every block or rejects every block
InitIc ==
    /\ chain = << GenesisBlock(1) >>
    /\ tampered = NoBlock
    /\ lastValid = NotValidated
    /\ ctl_nodes = EmptyMap
    /\ ctl_chain = << CliGenesis(1) >>
    /\ ctl_result = CtlConstructed
    /\ rm_nodes = EmptyMap
    /\ rm_result = RmConstructed
    /\ rm_undo = << >>
    /\ ce_nodes \in { << "default" >>, << "REJECT" >> }
    /\ ce_threshold = << 1, 2 >>
    /\ ce_result = CeConstructed
    /\ fs = NoFiles
    /\ sv_pc = "idle"
    /\ sv_args = << >>
    /\ fs_committed = << >>
    /\ fs_edited = 0
    /\ st_result = StConstructed
    /\ th_pc = AllIdle
    /\ th_loc = AllNoLocals
    /\ th_obs = [nodes |-> EmptyMap, blocks |-> << CliGenesis(1) >>]
    /\ ic_audit = << >>
    /\ ic_result = IcConstructed
    /\ cs_pc = NoCalls
    /\ cs_loc = NoCalls

SpecRestart == InitIc /\ [][NextIc]_vars

\* a directory where the state file holds a snapshot saved before, or where
\* there is no state file yet; neither save_state call has started
InitCs ==
    /\ chain = << GenesisBlock(1) >>
    /\ tampered = NoBlock
    /\ lastValid = NotValidated
    /\ ctl_nodes = EmptyMap
    /\ ctl_chain = << CliGenesis(1) >>
    /\ ctl_result = CtlConstructed
    /\ rm_nodes = EmptyMap
    /\ rm_result = RmConstructed
    /\ rm_undo = << >>
    /\ ce_nodes = << "default" >>
    /\ ce_threshold = << 1, 2 >>
    /\ ce_result = CeConstructed
    /\ fs_committed \in {<< >>} \cup {<< snapshot >> : snapshot \in Snapshots}
    /\ fs = [n \in SaverFileNames |->
                IF n = StateFile /\ fs_committed # << >>
                THEN CompleteFile(fs_committed[1]) ELSE << >>]
    /\ sv_pc = "idle"
    /\ sv_args = << >>
    /\ fs_edited = 0
    /\ st_result = StConstructed
    /\ th_pc = AllIdle
    /\ th_loc = AllNoLocals
    /\ th_obs = [nodes |-> EmptyMap, blocks |-> << CliGenesis(1) >>]
    /\ ic_audit = << >>
    /\ ic_result = IcConstructed
    /\ cs_pc = [t \in Savers |-> "idle"]
    /\ cs_loc = [t \in Savers |-> NoSave]

SpecSavers == InitCs /\ [][NextCs]_vars

====
